---- MODULE Spec2Model ----
(***************************************************************************)
(* Structural time-series component algebra of pymc_extras                 *)
(* (src/pymc_extras/statespace/models/structural.py).                      *)
(*                                                                         *)
(* Python objects are modelled with a heap: every list and dict that a     *)
(* component or a model holds is a heap cell, and the object's attribute   *)
(* is the cell's address, so that in-place updates (+=, d[k] = v,          *)
(* d.update) and sharing between objects are visible.                      *)
(*                                                                         *)
(* A Python str is a sequence of chunks (TLA+ strings); concatenation is   *)
(* \o, and a formatted string is the sequence of its literal pieces and    *)
(* interpolated values.  The literal "StateSpace" is always a chunk of its *)
(* own, so str.startswith("StateSpace") is a test on the first chunk.      *)
(*                                                                         *)
(* A dict is the sequence of its <<key, value>> items in insertion order.  *)
(***************************************************************************)
EXTENDS Integers, Sequences, FiniteSets, TLC

VARIABLES comps, heap, models, last

vars == <<comps, heap, models, last>>

----------------------------------------------------------------------------
(* Bounds of the model *)

\* additions in a run of SpecAdd
MaxAdds == 2
\* additions in a run of Spec and SpecReg
MaxSums == 1
\* models built in a run
MaxModels == 1

\* constructor calls in a run of SpecNew
MaxNew == 1

----------------------------------------------------------------------------
(* Strings *)

Str(s) == <<s>>

EmptyStr == <<>>

RECURSIVE Join(_, _)
Join(sep, names) ==
    IF names = <<>> THEN EmptyStr
    ELSE IF Len(names) = 1 THEN names[1]
    ELSE names[1] \o sep \o Join(sep, Tail(names))

StartsWithStateSpace(key) == Len(key) >= 1 /\ key[1] = "StateSpace"

----------------------------------------------------------------------------
(* Sequences *)

Range(s) == {s[i] : i \in 1..Len(s)}

Contains(s, x) == \E i \in 1..Len(s) : s[i] = x

Count(s, x) == Cardinality({i \in 1..Len(s) : s[i] = x})

RECURSIVE SumSeq(_)
SumSeq(s) == IF s = <<>> THEN 0 ELSE s[1] + SumSeq(Tail(s))

RECURSIVE SelectByMask(_, _)
SelectByMask(s, mask) ==
    IF s = <<>> \/ mask = <<>> THEN <<>>
    ELSE (IF mask[1] THEN <<s[1]>> ELSE <<>>) \o SelectByMask(Tail(s), Tail(mask))

PySlice(s, i, j) ==
    LET hi == IF j > Len(s) THEN Len(s) ELSE j
    IN  IF i >= hi THEN <<>> ELSE [n \in 1..(hi - i) |-> s[i + n]]

----------------------------------------------------------------------------
(* Dicts *)

DictKeys(d) == [i \in 1..Len(d) |-> d[i][1]]

DictHas(d, k) == \E i \in 1..Len(d) : d[i][1] = k

DictGet(d, k) == d[CHOOSE i \in 1..Len(d) : d[i][1] = k][2]

DictSet(d, k, v) ==
    IF DictHas(d, k)
    THEN [i \in 1..Len(d) |-> IF d[i][1] = k THEN <<k, v>> ELSE d[i]]
    ELSE Append(d, <<k, v>>)

RECURSIVE DictUpdate(_, _)
DictUpdate(d, e) ==
    IF e = <<>> THEN d
    ELSE DictUpdate(DictSet(d, e[1][1], e[1][2]), Tail(e))

----------------------------------------------------------------------------
(* Matrices.  shape is the tensor's shape; the entries are those of the    *)
(* last two axes.  An entry is a number, or a term built from a registered *)
(* placeholder.                                                            *)

Num(v) == <<"num", EmptyStr, 0, 0, v>>

Sq(name, i) == <<"sq", name, i, 0, 0>>

Var(name, i, j) == <<"var", name, i, j, 0>>

Rows(M) == M.shape[Len(M.shape) - 1]

Cols(M) == M.shape[Len(M.shape)]

\* the index set of a matrix of the given shape (its last two axes)
Cells(shape) == (1..shape[Len(shape) - 1]) \X (1..shape[Len(shape)])

MakeMat(shape, e) == [shape |-> shape, e |-> e]

ZerosEntry(i, j) == Num(0)

Zeros(shape) == MakeMat(shape, [p \in Cells(shape) |-> ZerosEntry(p[1], p[2])])

IsZeroMat(M) == \A p \in DOMAIN M.e : M.e[p] = Num(0)

----------------------------------------------------------------------------
(* Constants of pymc_extras.statespace.utils.constants *)

POSITION_DERIVATIVE_NAMES ==
    << Str("level"), Str("trend"), Str("acceleration"), Str("jerk"),
       Str("snap"), Str("crackle"), Str("pop") >>

ALL_STATE_DIM == Str("state")

ALL_STATE_AUX_DIM == Str("state_aux")

P0Name == Str("P0")

NoneVal == <<"<None>">>

Unset == <<"<unset>">>

----------------------------------------------------------------------------
(* Outcome of a call: the exception raised ("none" when it returns) *)

Raise(e) == [exc |-> e]

Return(v) == [exc |-> "none", val |-> v]

----------------------------------------------------------------------------
(* PytensorRepresentation: the matrices the composition stacks             *)
(* block-diagonally.  A fresh representation holds zeros.                  *)

PytensorRepresentation(k_endog, k_states, k_posdef) ==
    [ k_endog |-> k_endog, k_states |-> k_states, k_posdef |-> k_posdef,
      initial_state |-> [i \in 1..k_states |-> Num(0)],
      initial_state_cov |-> Zeros(<<k_states, k_states>>),
      transition |-> Zeros(<<k_states, k_states>>),
      selection |-> Zeros(<<k_states, k_posdef>>),
      state_cov |-> Zeros(<<k_posdef, k_posdef>>) ]

\* fault variant: the second matrix comes first
block_diag_swapped(A, B) ==
    LET rb == Rows(B)
        cb == Cols(B)
        Entry(i, j) ==
            IF i <= rb /\ j <= cb THEN B.e[<<i, j>>]
            ELSE IF i > rb /\ j > cb THEN A.e[<<i - rb, j - cb>>]
            ELSE Num(0)
        shape == <<Rows(A) + rb, Cols(A) + cb>>
    IN  MakeMat(shape, [p \in Cells(shape) |-> Entry(p[1], p[2])])

block_diag(A, B) ==
    LET ra == Rows(A)
        ca == Cols(A)
        Entry(i, j) ==
            IF i <= ra /\ j <= ca THEN A.e[<<i, j>>]
            ELSE IF i > ra /\ j > ca THEN B.e[<<i - ra, j - ca>>]
            ELSE Num(0)
        shape == <<ra + Rows(B), ca + Cols(B)>>
    IN  MakeMat(shape, [p \in Cells(shape) |-> Entry(p[1], p[2])])

----------------------------------------------------------------------------
(* Component.make_and_register_variable / make_and_register_data, as       *)
(* functions of the declared names and the registry; reg is the registry   *)
(* after the call.                                                         *)

Placeholder(name, shape) == [name |-> name, shape |-> shape]

\* fault variant: no check for an already registered name
make_and_register_variable_overwriting(param_names, name_to_variable, name, shape) ==
    IF ~Contains(param_names, name)
    THEN [exc |-> "ValueError", reg |-> name_to_variable]
    ELSE [exc |-> "none",
          reg |-> DictSet(name_to_variable, name, Placeholder(name, shape))]

make_and_register_variable(param_names, name_to_variable, name, shape) ==
    IF ~Contains(param_names, name)
    THEN [exc |-> "ValueError", reg |-> name_to_variable]
    ELSE IF Contains(DictKeys(name_to_variable), name)
    THEN [exc |-> "ValueError", reg |-> name_to_variable]
    ELSE [exc |-> "none",
          reg |-> DictSet(name_to_variable, name, Placeholder(name, shape))]

make_and_register_data(data_names, name_to_data, name, shape) ==
    IF ~Contains(data_names, name)
    THEN [exc |-> "ValueError", reg |-> name_to_data]
    ELSE IF Contains(DictKeys(name_to_data), name)
    THEN [exc |-> "ValueError", reg |-> name_to_data]
    ELSE [exc |-> "none",
          reg |-> DictSet(name_to_data, name, Placeholder(name, shape))]

----------------------------------------------------------------------------
(* Component.__init__.  An object under construction carries the values of *)
(* its containers; the action that runs the constructor stores them in     *)
(* fresh heap cells.                                                       *)

NoneIdx == [none |-> TRUE, idx |-> <<>>]

SomeIdx(s) == [none |-> FALSE, idx |-> s]

Component_init_fields(name, k_endog, k_states, k_posdef, state_names, data_names, shock_names, param_names, exog_names, ssm, measurement_error) ==
    [ name |-> name, k_endog |-> k_endog, k_states |-> k_states,
      k_posdef |-> k_posdef, measurement_error |-> measurement_error,
      state_names |-> state_names, data_names |-> data_names,
      shock_names |-> shock_names, param_names |-> param_names,
      exog_names |-> exog_names,
      needs_exog_data |-> (Len(exog_names) > 0),
      coords |-> <<>>, param_dims |-> <<>>, param_info |-> <<>>,
      data_info |-> <<>>, ssm |-> ssm,
      name_to_variable |-> <<>>, name_to_data |-> <<>> ]

Component_info(o, combine_hidden_states, obs_state_idxs) ==
    << << o.name,
          [ k_states |-> o.k_states, k_enodg |-> o.k_endog, k_posdef |-> o.k_posdef,
            combine_hidden_states |-> combine_hidden_states,
            obs_state_idx |-> obs_state_idxs ] >> >>

WithInfo(o, combine_hidden_states, obs_state_idxs) ==
    [ f \in DOMAIN o \cup {"component_info"} |->
        IF f = "component_info"
        THEN Component_info(o, combine_hidden_states, obs_state_idxs)
        ELSE o[f] ]

\* Component(...) called on the base class: populate_component_properties
\* raises NotImplementedError unless component_from_sum is set.
Component(cfg) ==
    IF ~cfg.component_from_sum THEN Raise("NotImplementedError")
    ELSE Return(WithInfo(
            Component_init_fields(cfg.name, cfg.k_endog, cfg.k_states, cfg.k_posdef,
                cfg.state_names, cfg.data_names, <<>>, cfg.param_names, <<>>,
                PytensorRepresentation(cfg.k_endog, cfg.k_states, cfg.k_posdef),
                cfg.measurement_error),
            cfg.combine_hidden_states, cfg.obs_state_idxs))

----------------------------------------------------------------------------
(* Constructor arguments that are "int or list of int or None" *)

IntArg(n) == [none |-> FALSE, isint |-> TRUE, n |-> n, l |-> <<>>]

ListArg(l) == [none |-> FALSE, isint |-> FALSE, n |-> 0, l |-> l]

NoneArg == [none |-> TRUE, isint |-> FALSE, n |-> 0, l |-> <<>>]

\* fault variant: an integer order gives one entry too many
order_to_mask_one_more(order) ==
    IF order.isint
    THEN [i \in 1..(order.n + 1) |-> TRUE]
    ELSE [i \in 1..Len(order.l) |-> order.l[i] # 0]

order_to_mask(order) ==
    IF order.isint
    THEN [i \in 1..order.n |-> TRUE]
    ELSE [i \in 1..Len(order.l) |-> order.l[i] # 0]

\* np.flatnonzero: the 0-based positions of the true entries
flatnonzero(mask) == SelectByMask([i \in 1..Len(mask) |-> i - 1], mask)

CountTrue(mask) == Cardinality({i \in 1..Len(mask) : mask[i]})

----------------------------------------------------------------------------
(* LevelTrendComponent *)

LevelTrend_populate_component_properties(o, order_mask, innovations_order) ==
    LET name_slice == PySlice(POSITION_DERIVATIVE_NAMES, 0, o.k_states)
        state_names == SelectByMask(name_slice, order_mask)
        shock_names == SelectByMask(name_slice, innovations_order)
        it == Str("initial_trend")
        st == Str("sigma_trend")
        param_names0 == <<it>>
        param_dims0 == << <<it, <<Str("trend_state")>> >> >>
        coords0 == << <<Str("trend_state"), state_names>> >>
        param_info0 ==
            << <<it, [shape |-> <<o.k_states>>, constraints |-> "None", dims |-> Unset]>> >>
        innov == o.k_posdef > 0
        param_names1 == IF innov THEN param_names0 \o <<st>> ELSE param_names0
        param_dims1 ==
            IF innov THEN DictSet(param_dims0, st, <<Str("trend_shock")>>) ELSE param_dims0
        coords1 == IF innov THEN DictSet(coords0, Str("trend_shock"), shock_names) ELSE coords0
        param_info1 ==
            IF innov
            THEN DictSet(param_info0, st,
                     [shape |-> <<o.k_posdef>>, constraints |-> "Positive", dims |-> Unset])
            ELSE param_info0
        \* for name in self.param_names: param_info[name]["dims"] = param_dims[name]
        param_info2 ==
            [i \in 1..Len(param_info1) |->
                IF Contains(param_names1, param_info1[i][1])
                THEN <<param_info1[i][1],
                       [param_info1[i][2] EXCEPT !.dims = DictGet(param_dims1, param_info1[i][1])]>>
                ELSE param_info1[i]]
    IN  [o EXCEPT !.param_names = param_names1,
                  !.state_names = state_names,
                  !.shock_names = IF innov THEN shock_names ELSE o.shock_names,
                  !.param_dims = param_dims1,
                  !.coords = coords1,
                  !.param_info = param_info2]

LevelTrend_make_symbolic_graph(o, innovations_order) ==
    LET r1 == make_and_register_variable(o.param_names, o.name_to_variable,
                                         Str("initial_trend"), <<o.k_states>>)
        triu(i, j) == IF j >= i THEN Num(1) ELSE Num(0)
        cols == flatnonzero(innovations_order)
        R(i, j) == IF cols[j] = i - 1 THEN Num(1) ELSE Num(0)
        r2 == make_and_register_variable(o.param_names, r1.reg,
                                         Str("sigma_trend"), <<o.k_posdef>>)
        Q(i, j) == IF i = j THEN Sq(Str("sigma_trend"), i - 1) ELSE Num(0)
        Tshape == <<o.k_states, o.k_states>>
        Rshape == <<o.k_states, Len(cols)>>
        Qshape == <<o.k_posdef, o.k_posdef>>
        ssm1 == [o.ssm EXCEPT
                   !.initial_state =
                       [i \in 1..o.k_states |-> Var(Str("initial_trend"), i - 1, 0)],
                   !.transition = MakeMat(Tshape, [p \in Cells(Tshape) |-> triu(p[1], p[2])]),
                   !.selection = MakeMat(Rshape, [p \in Cells(Rshape) |-> R(p[1], p[2])])]
    IN  IF r1.exc # "none" THEN Raise(r1.exc)
        ELSE IF o.k_posdef > 0
        THEN IF r2.exc # "none" THEN Raise(r2.exc)
             ELSE Return([o EXCEPT !.name_to_variable = r2.reg,
                                   !.ssm = [ssm1 EXCEPT !.state_cov =
                                     MakeMat(Qshape, [p \in Cells(Qshape) |-> Q(p[1], p[2])])]])
        ELSE Return([o EXCEPT !.name_to_variable = r1.reg, !.ssm = ssm1])

LevelTrendComponent(cfg) ==
    LET innovations_order0 == IF cfg.innovations_order.none THEN cfg.order
                              ELSE cfg.innovations_order
        order_mask == order_to_mask(cfg.order)
        nz == flatnonzero(order_mask)
    IN  IF nz = <<>> THEN Raise("IndexError")
        ELSE
        LET max_state == nz[Len(nz)] + 1
            k_states == max_state
            innovations_order1 ==
                IF innovations_order0.isint
                THEN [i \in 1..k_states |->
                        innovations_order0.n > 0 /\ i <= innovations_order0.n]
                ELSE order_to_mask(innovations_order0)
            innovations_order == PySlice(innovations_order1, 0, max_state)
            k_posdef == CountTrue(innovations_order1)
            o0 == Component_init_fields(cfg.name, 1, k_states, k_posdef,
                      <<>>, <<>>, <<>>, <<>>, <<>>,
                      PytensorRepresentation(1, k_states, k_posdef), FALSE)
            o1 == LevelTrend_populate_component_properties(o0, order_mask, innovations_order)
            r == LevelTrend_make_symbolic_graph(o1, innovations_order)
        IN  IF Len(order_mask) > max_state THEN Raise("ValueError")
            ELSE IF r.exc # "none" THEN r
            ELSE Return(WithInfo(r.val, FALSE,
                     SomeIdx([i \in 1..k_states |-> IF i = 1 THEN 1 ELSE 0])))

----------------------------------------------------------------------------
(* MeasurementError *)

MeasurementError_populate_component_properties(o) ==
    LET sn == Str("sigma_") \o o.name
    IN  [o EXCEPT !.param_names = <<sn>>,
                  !.param_dims = <<>>,
                  !.param_info =
                     << <<sn, [shape |-> <<>>, constraints |-> "Positive",
                               dims |-> NoneVal]>> >>]

MeasurementError_make_symbolic_graph(o) ==
    LET r == make_and_register_variable(o.param_names, o.name_to_variable,
                                        Str("sigma_") \o o.name, <<>>)
    IN  IF r.exc # "none" THEN Raise(r.exc)
        ELSE Return([o EXCEPT !.name_to_variable = r.reg])

MeasurementError(cfg) ==
    LET o0 == Component_init_fields(cfg.name, 1, 0, 0, <<>>, <<>>, <<>>, <<>>, <<>>,
                  PytensorRepresentation(1, 0, 0), TRUE)
        r == MeasurementError_make_symbolic_graph(
                 MeasurementError_populate_component_properties(o0))
    IN  IF r.exc # "none" THEN r
        ELSE Return(WithInfo(r.val, FALSE, NoneIdx))

----------------------------------------------------------------------------
(* Helpers of the remaining component variants *)

AR_PARAM_DIM == Str("lag_ar")

\* str(i) and str(b) inside a formatted string
IntStr(i) == Str(ToString(i))

BoolStr(b) == IF b THEN Str("True") ELSE Str("False")

\* fault variant: the offset of the diagonal is ignored
eye_main(n, m, k) ==
    MakeMat(<<n, m>>, [p \in Cells(<<n, m>>) |-> IF p[2] = p[1] THEN Num(1) ELSE Num(0)])

\* np.eye(n, m, k): ones on the k-th diagonal
eye(n, m, k) ==
    MakeMat(<<n, m>>, [p \in Cells(<<n, m>>) |-> IF p[2] - p[1] = k THEN Num(1) ELSE Num(0)])

\* np.r_[[1.0], np.zeros(k_states - 1)]: np.zeros rejects a negative length
FirstStateIdx(k_states) ==
    IF k_states - 1 < 0 THEN Raise("ValueError")
    ELSE Return(SomeIdx([i \in 1..k_states |-> IF i = 1 THEN 1 ELSE 0]))

\* obs_state_idx = np.zeros(k_states); obs_state_idx[slice(0, k_states, 2)] = 1
EvenStateIdx(k_states) == SomeIdx([i \in 1..k_states |-> IF i % 2 = 1 THEN 1 ELSE 0])

\* [[cos(lam), sin(lam)], [-sin(lam), cos(lam)]] with lam = 2 * pi * j / s, where
\* s is <<name, n>>: the number n, or the placeholder called name when
\* name # EmptyStr.  An entry is <<f, name, n, j, damped>>.
_frequency_transition_block(s, j) ==
    MakeMat(<<2, 2>>,
        [p \in Cells(<<2, 2>>) |->
            <<IF p[1] = p[2] THEN "cos" ELSE IF p[1] < p[2] THEN "sin" ELSE "-sin",
              s[1], s[2], j, 0>>])

\* the registrations of a make_symbolic_graph, in order: items are <<name, shape>>
RECURSIVE RegisterAll(_, _, _)
RegisterAll(param_names, name_to_variable, items) ==
    IF items = <<>> THEN [exc |-> "none", reg |-> name_to_variable]
    ELSE LET r == make_and_register_variable(param_names, name_to_variable,
                                             items[1][1], items[1][2])
         IN  IF r.exc # "none" THEN r
             ELSE RegisterAll(param_names, r.reg, Tail(items))

ParamInfo(shape, constraints, dims) ==
    [shape |-> shape, constraints |-> constraints, dims |-> dims]

----------------------------------------------------------------------------
(* AutoregressiveComponent *)

Autoregressive_populate_component_properties(o, ar_lags) ==
    LET ap == Str("ar_params")
        sa == Str("sigma_ar")
    IN  [o EXCEPT
          !.state_names = [i \in 1..o.k_states |-> Str("L") \o IntStr(i) \o Str(".data")],
          !.shock_names = <<o.name \o Str("_innovation")>>,
          !.param_names = <<ap, sa>>,
          !.param_dims = << <<ap, <<AR_PARAM_DIM>> >> >>,
          !.coords = << <<AR_PARAM_DIM, ar_lags>> >>,
          !.param_info =
              << <<ap, ParamInfo(<<o.k_states>>, "None", <<AR_PARAM_DIM>>)>>,
                 <<sa, ParamInfo(<<>>, "Positive", NoneVal)>> >>]

\* fault variant: the coefficients fill the first columns of row 0, whatever the mask
Autoregressive_make_symbolic_graph_packed(o, order) ==
    LET k_nonzero == CountTrue(order)
        r == RegisterAll(o.param_names, o.name_to_variable,
                 << <<Str("ar_params"), <<k_nonzero>> >>, <<Str("sigma_ar"), <<>> >> >>)
        T0 == eye(o.k_states, o.k_states, 0 - 1)
        T == [T0 EXCEPT !.e =
                [p \in DOMAIN T0.e |->
                    IF p[1] = 1 /\ p[2] <= k_nonzero
                    THEN Var(Str("ar_params"), p[2] - 1, 0) ELSE T0.e[p]]]
    IN  IF r.exc # "none" THEN Raise(r.exc)
        ELSE Return([o EXCEPT !.name_to_variable = r.reg, !.ssm = [@ EXCEPT !.transition = T]])

Autoregressive_make_symbolic_graph(o, order) ==
    LET k_nonzero == CountTrue(order)
        nz == flatnonzero(order)
        r == RegisterAll(o.param_names, o.name_to_variable,
                 << <<Str("ar_params"), <<k_nonzero>> >>, <<Str("sigma_ar"), <<>> >> >>)
        T0 == eye(o.k_states, o.k_states, 0 - 1)
        T == [T0 EXCEPT !.e =
                [p \in DOMAIN T0.e |->
                    IF p[1] = 1 /\ \E n \in 1..Len(nz) : nz[n] = p[2] - 1
                    THEN Var(Str("ar_params"),
                             (CHOOSE n \in 1..Len(nz) : nz[n] = p[2] - 1) - 1, 0)
                    ELSE T0.e[p]]]
        R == [o.ssm.selection EXCEPT !.e = [p \in DOMAIN @ |->
                 IF p = <<1, 1>> THEN Num(1) ELSE @[p]]]
        Q == [o.ssm.state_cov EXCEPT !.e = [p \in DOMAIN @ |->
                 IF p = <<1, 1>> THEN Sq(Str("sigma_ar"), 0) ELSE @[p]]]
    IN  IF r.exc # "none" THEN Raise(r.exc)
        ELSE Return([o EXCEPT !.name_to_variable = r.reg,
                              !.ssm = [@ EXCEPT !.transition = T, !.selection = R,
                                                !.state_cov = Q]])

AutoregressiveComponent(cfg) ==
    LET order == order_to_mask(cfg.order)
        ar_lags == [i \in 1..Len(flatnonzero(order)) |-> flatnonzero(order)[i] + 1]
        k_states == Len(order)
        idx == FirstStateIdx(k_states)
        o0 == Component_init_fields(cfg.name, 1, k_states, 1, <<>>, <<>>, <<>>, <<>>, <<>>,
                  PytensorRepresentation(1, k_states, 1), TRUE)
        r == Autoregressive_make_symbolic_graph(
                 Autoregressive_populate_component_properties(o0, ar_lags), order)
    IN  IF idx.exc # "none" THEN idx
        ELSE IF r.exc # "none" THEN r
        ELSE Return(WithInfo(r.val, TRUE, idx.val))

----------------------------------------------------------------------------
(* TimeSeasonality *)

\* fault variant: the supplied list is used without a copy
TimeSeasonality_state_names_uncopied(cfg, name) ==
    LET given == cfg.state_names.l
        generated == [i \in 1..cfg.season_length |-> name \o Str("_") \o IntStr(i - 1)]
        own == IF cfg.state_names.none THEN generated ELSE given
    IN  IF ~cfg.state_names.none /\ Len(given) # cfg.season_length THEN Raise("ValueError")
        ELSE IF ~cfg.remove_first_state
        THEN [exc |-> "none", val |-> own, supplied |-> given]
        ELSE IF own = <<>> THEN Raise("IndexError")
        ELSE [exc |-> "none", val |-> Tail(own),
              supplied |-> IF cfg.state_names.none THEN given ELSE Tail(given)]

\* the state names of the component (val) and the caller's list after the call
\* (supplied): the names are popped from a copy
TimeSeasonality_state_names(cfg, name) ==
    LET given == cfg.state_names.l
        generated == [i \in 1..cfg.season_length |-> name \o Str("_") \o IntStr(i - 1)]
        own == IF cfg.state_names.none THEN generated ELSE given
    IN  IF ~cfg.state_names.none /\ Len(given) # cfg.season_length THEN Raise("ValueError")
        ELSE IF ~cfg.remove_first_state
        THEN [exc |-> "none", val |-> own, supplied |-> given]
        ELSE IF own = <<>> THEN Raise("IndexError")
        ELSE [exc |-> "none", val |-> Tail(own), supplied |-> given]

TimeSeasonality_populate_component_properties(o, innovations) ==
    LET coefs == o.name \o Str("_coefs")
        sigma == Str("sigma_") \o o.name
        dim == o.name \o Str("_state")
        o1 == [o EXCEPT
                 !.param_names = <<coefs>>,
                 !.param_info = << <<coefs, ParamInfo(<<o.k_states>>, "None", <<dim>>)>> >>,
                 !.param_dims = << <<coefs, <<dim>> >> >>,
                 !.coords = << <<dim, o.state_names>> >>]
    IN  IF innovations
        THEN [o1 EXCEPT
                !.param_names = @ \o <<sigma>>,
                !.param_info = DictSet(@, sigma, ParamInfo(<<>>, "Positive", NoneVal)),
                !.shock_names = <<o.name>>]
        ELSE o1

\* fault variant: row 0 of the transition matrix is not set to -1
TimeSeasonality_make_symbolic_graph_no_sum(o, innovations, remove_first_state) ==
    Return([o EXCEPT !.ssm = [@ EXCEPT
                !.transition = eye(o.k_states, o.k_states, IF remove_first_state THEN 0 - 1 ELSE 1),
                !.initial_state = [i \in 1..o.k_states |-> Var(o.name \o Str("_coefs"), i - 1, 0)]]])

TimeSeasonality_make_symbolic_graph(o, innovations, remove_first_state) ==
    LET k == o.k_states
        T0 == IF remove_first_state THEN eye(k, k, 0 - 1) ELSE eye(k, k, 1)
        T == [T0 EXCEPT !.e =
                [p \in DOMAIN T0.e |->
                    IF remove_first_state /\ p[1] = 1 THEN Num(0 - 1)
                    ELSE IF ~remove_first_state /\ p = <<k, 1>> THEN Num(1)
                    ELSE T0.e[p]]]
        coefs == o.name \o Str("_coefs")
        sigma == Str("sigma_") \o o.name
        r == RegisterAll(o.param_names, o.name_to_variable,
                 << <<coefs, <<k>> >> >> \o
                 (IF innovations THEN << <<sigma, <<>> >> >> ELSE <<>>))
        ssm1 == [o.ssm EXCEPT !.transition = T,
                              !.initial_state = [i \in 1..k |-> Var(coefs, i - 1, 0)]]
        ssm2 == [ssm1 EXCEPT
                   !.selection = [@ EXCEPT !.e = [p \in DOMAIN @ |->
                                     IF p = <<1, 1>> THEN Num(1) ELSE @[p]]],
                   !.state_cov = [@ EXCEPT !.e = [p \in DOMAIN @ |->
                                     IF p = <<1, 1>> THEN Sq(sigma, 0) ELSE @[p]]]]
    IN  IF r.exc # "none" THEN Raise(r.exc)
        ELSE Return([o EXCEPT !.name_to_variable = r.reg,
                              !.ssm = IF innovations THEN ssm2 ELSE ssm1])

TimeSeasonality(cfg) ==
    LET name == IF cfg.name = NoneVal
                THEN Str("Seasonal[s=") \o IntStr(cfg.season_length) \o Str("]")
                ELSE cfg.name
        sn == TimeSeasonality_state_names(cfg, name)
        k_states == cfg.season_length - (IF cfg.remove_first_state THEN 1 ELSE 0)
        k_posdef == IF cfg.innovations THEN 1 ELSE 0
        idx == FirstStateIdx(k_states)
        o0 == Component_init_fields(name, 1, k_states, k_posdef, sn.val, <<>>, <<>>, <<>>,
                  <<>>, PytensorRepresentation(1, k_states, k_posdef), FALSE)
        r == TimeSeasonality_make_symbolic_graph(
                 TimeSeasonality_populate_component_properties(o0, cfg.innovations),
                 cfg.innovations, cfg.remove_first_state)
    IN  IF sn.exc # "none" THEN Raise(sn.exc)
        ELSE IF idx.exc # "none" THEN idx
        ELSE IF r.exc # "none" THEN r
        ELSE [exc |-> "none", val |-> WithInfo(r.val, TRUE, idx.val),
              supplied |-> sn.supplied]

----------------------------------------------------------------------------
(* FrequencySeasonality *)

FrequencySeasonality_populate_component_properties(o, n, last_state_not_identified, innovations) ==
    LET fs == <<Str("Cos"), Str("Sin")>>
        state_names == [i \in 1..(2 * n) |->
                          o.name \o Str("_") \o fs[((i - 1) % 2) + 1] \o Str("_")
                                 \o IntStr((i - 1) \div 2)]
        dim == o.name \o Str("_state")
        sigma == Str("sigma_") \o o.name
        n_coefs == o.k_states - (IF last_state_not_identified THEN 1 ELSE 0)
        o1 == [o EXCEPT
                 !.state_names = state_names,
                 !.param_names = <<o.name>>,
                 !.param_dims = << <<o.name, <<dim>> >> >>,
                 !.param_info = << <<o.name, ParamInfo(<<n_coefs>>, "None", <<dim>>)>> >>,
                 !.coords = << <<dim, PySlice(state_names, 0, n_coefs)>> >>]
    IN  IF innovations
        THEN [o1 EXCEPT
                !.shock_names = state_names,
                !.param_names = @ \o <<sigma>>,
                !.param_info = DictSet(@, sigma, ParamInfo(<<>>, "Positive", NoneVal))]
        ELSE o1

FrequencySeasonality_make_symbolic_graph(o, season_length, n, n_coefs, innovations) ==
    LET sigma == Str("sigma_") \o o.name
        r == RegisterAll(o.param_names, o.name_to_variable,
                 << <<o.name, <<n_coefs>> >> >> \o
                 (IF innovations THEN << <<sigma, <<>> >> >> ELSE <<>>))
        k == o.k_states
        \* pt.linalg.block_diag(*T_mats) with T_mats[j] the block of frequency j + 1
        T == MakeMat(<<k, k>>,
                 [p \in Cells(<<k, k>>) |->
                     IF (p[1] - 1) \div 2 = (p[2] - 1) \div 2
                     THEN _frequency_transition_block(<<EmptyStr, season_length>>,
                              ((p[1] - 1) \div 2) + 1).e[<<((p[1] - 1) % 2) + 1, ((p[2] - 1) % 2) + 1>>]
                     ELSE Num(0)])
        ssm1 == [o.ssm EXCEPT
                   !.transition = T,
                   !.initial_state = [i \in 1..k |->
                        IF i <= n_coefs THEN Var(o.name, i - 1, 0) ELSE @[i]]]
        ssm2 == [ssm1 EXCEPT
                   !.selection = eye(k, k, 0),
                   !.state_cov = MakeMat(<<o.k_posdef, o.k_posdef>>,
                        [p \in Cells(<<o.k_posdef, o.k_posdef>>) |->
                            IF p[1] = p[2] THEN Sq(sigma, 0) ELSE Num(0)])]
    IN  IF r.exc # "none" THEN Raise(r.exc)
        ELSE Return([o EXCEPT !.name_to_variable = r.reg,
                              !.ssm = IF innovations THEN ssm2 ELSE ssm1])

\* fault variant: the saturation test is n = season_length // 2
FrequencySeasonality_floor_test(cfg) ==
    LET n == IF cfg.n.none THEN cfg.season_length \div 2 ELSE cfg.n.n
        name == IF cfg.name = NoneVal
                THEN Str("Frequency[s=") \o IntStr(cfg.season_length) \o Str(", n=")
                         \o IntStr(n) \o Str("]")
                ELSE cfg.name
        k_states == n * 2
        last_state_not_identified == n = cfg.season_length \div 2
        n_coefs == k_states - (IF last_state_not_identified THEN 1 ELSE 0)
        k_posdef == IF cfg.innovations THEN k_states ELSE 0
        o0 == Component_init_fields(name, 1, k_states, k_posdef, <<>>, <<>>, <<>>, <<>>, <<>>,
                  PytensorRepresentation(1, k_states, k_posdef), FALSE)
        r == FrequencySeasonality_make_symbolic_graph(
                 FrequencySeasonality_populate_component_properties(
                     o0, n, last_state_not_identified, cfg.innovations),
                 cfg.season_length, n, n_coefs, cfg.innovations)
    IN  IF n = 0 THEN Raise("ZeroDivisionError")
        ELSE IF r.exc # "none" THEN r
        ELSE [exc |-> "none", val |-> WithInfo(r.val, TRUE, EvenStateIdx(k_states)),
              n |-> n, last_state_not_identified |-> last_state_not_identified]

FrequencySeasonality(cfg) ==
    LET n == IF cfg.n.none THEN cfg.season_length \div 2 ELSE cfg.n.n
        name == IF cfg.name = NoneVal
                THEN Str("Frequency[s=") \o IntStr(cfg.season_length) \o Str(", n=")
                         \o IntStr(n) \o Str("]")
                ELSE cfg.name
        k_states == n * 2
        \* season_length / n == 2.0 in floating point, exact for these integers
        last_state_not_identified == cfg.season_length = 2 * n
        n_coefs == k_states - (IF last_state_not_identified THEN 1 ELSE 0)
        k_posdef == IF cfg.innovations THEN k_states ELSE 0
        o0 == Component_init_fields(name, 1, k_states, k_posdef, <<>>, <<>>, <<>>, <<>>, <<>>,
                  PytensorRepresentation(1, k_states, k_posdef), FALSE)
        r == FrequencySeasonality_make_symbolic_graph(
                 FrequencySeasonality_populate_component_properties(
                     o0, n, last_state_not_identified, cfg.innovations),
                 cfg.season_length, n, n_coefs, cfg.innovations)
    IN  IF n = 0 THEN Raise("ZeroDivisionError")
        ELSE IF r.exc # "none" THEN r
        ELSE [exc |-> "none", val |-> WithInfo(r.val, TRUE, EvenStateIdx(k_states)),
              n |-> n, last_state_not_identified |-> last_state_not_identified]

----------------------------------------------------------------------------
(* CycleComponent *)

CycleComponent_populate_component_properties(o, estimate_cycle_length, dampen, innovations) ==
    LET state_names == <<o.name \o Str("_") \o Str("Cos"), o.name \o Str("_") \o Str("Sin")>>
        length == o.name \o Str("_length")
        factor == o.name \o Str("_dampening_factor")
        sigma == Str("sigma_") \o o.name
        o1 == [o EXCEPT
                 !.state_names = state_names,
                 !.param_names = <<o.name>>,
                 !.param_info = << <<o.name,
                     ParamInfo(<<2>>, "None", <<o.name \o Str("_state")>>)>> >>]
        o2 == IF estimate_cycle_length
              THEN [o1 EXCEPT
                      !.param_names = @ \o <<length>>,
                      !.param_info = DictSet(@, length,
                                         ParamInfo(<<>>, "Positive, non-zero", NoneVal))]
              ELSE o1
        o3 == IF dampen
              THEN [o2 EXCEPT
                      !.param_names = @ \o <<factor>>,
                      !.param_info = DictSet(@, factor, ParamInfo(<<>>, "0 < x <= 1", NoneVal))]
              ELSE o2
    IN  IF innovations
        THEN [o3 EXCEPT
                !.param_names = @ \o <<sigma>>,
                !.param_info = DictSet(@, sigma, ParamInfo(<<>>, "Positive", NoneVal)),
                !.shock_names = state_names]
        ELSE o3

CycleComponent_make_symbolic_graph(o, cycle_length, estimate_cycle_length, dampen, innovations) ==
    LET length == o.name \o Str("_length")
        factor == o.name \o Str("_dampening_factor")
        sigma == Str("sigma_") \o o.name
        r == RegisterAll(o.param_names, o.name_to_variable,
                 << <<o.name, <<o.k_states>> >> >> \o
                 (IF estimate_cycle_length THEN << <<length, <<>> >> >> ELSE <<>>) \o
                 (IF dampen THEN << <<factor, <<>> >> >> ELSE <<>>) \o
                 (IF innovations THEN << <<sigma, <<>> >> >> ELSE <<>>))
        lamb == IF estimate_cycle_length THEN <<length, 0>> ELSE <<EmptyStr, cycle_length.n>>
        block == _frequency_transition_block(lamb, 1)
        T == IF dampen THEN [block EXCEPT !.e = [p \in DOMAIN @ |-> [@[p] EXCEPT ![5] = 1]]]
             ELSE block
        ssm1 == [o.ssm EXCEPT
                   !.selection = eye(o.k_states, o.k_states, 0),
                   !.initial_state = [i \in 1..o.k_states |-> Var(o.name, i - 1, 0)],
                   !.transition = T]
        ssm2 == [ssm1 EXCEPT
                   !.state_cov = MakeMat(<<o.k_posdef, o.k_posdef>>,
                        [p \in Cells(<<o.k_posdef, o.k_posdef>>) |->
                            IF p[1] = p[2] THEN Sq(sigma, 0) ELSE Num(0)])]
    IN  IF r.exc # "none" THEN Raise(r.exc)
        ELSE Return([o EXCEPT
                        !.param_dims = << <<o.name, <<o.name \o Str("_state")>> >> >>,
                        !.coords = << <<o.name \o Str("_state"), o.state_names>> >>,
                        !.name_to_variable = r.reg,
                        !.ssm = IF innovations THEN ssm2 ELSE ssm1])

\* fault variant: a cycle_length given together with estimate_cycle_length is accepted
CycleComponent_unvalidated(cfg) ==
    LET cycle == IF cfg.cycle_length.none THEN Str("Estimate") ELSE IntStr(cfg.cycle_length.n)
        name == IF cfg.name = NoneVal
                THEN Str("Cycle[s=") \o cycle \o Str(", dampen=") \o BoolStr(cfg.dampen)
                         \o Str(", innovations=") \o BoolStr(cfg.innovations) \o Str("]")
                ELSE cfg.name
        o0 == Component_init_fields(name, 1, 2, 2, <<>>, <<>>, <<>>, <<>>, <<>>,
                  PytensorRepresentation(1, 2, 2), FALSE)
        r == CycleComponent_make_symbolic_graph(
                 CycleComponent_populate_component_properties(
                     o0, cfg.estimate_cycle_length, cfg.dampen, cfg.innovations),
                 cfg.cycle_length, cfg.estimate_cycle_length, cfg.dampen, cfg.innovations)
    IN  IF cfg.cycle_length.none /\ ~cfg.estimate_cycle_length THEN Raise("ValueError")
        ELSE IF r.exc # "none" THEN r
        ELSE Return(WithInfo(r.val, TRUE, EvenStateIdx(2)))

CycleComponent(cfg) ==
    LET cycle == IF cfg.cycle_length.none THEN Str("Estimate") ELSE IntStr(cfg.cycle_length.n)
        name == IF cfg.name = NoneVal
                THEN Str("Cycle[s=") \o cycle \o Str(", dampen=") \o BoolStr(cfg.dampen)
                         \o Str(", innovations=") \o BoolStr(cfg.innovations) \o Str("]")
                ELSE cfg.name
        o0 == Component_init_fields(name, 1, 2, 2, <<>>, <<>>, <<>>, <<>>, <<>>,
                  PytensorRepresentation(1, 2, 2), FALSE)
        r == CycleComponent_make_symbolic_graph(
                 CycleComponent_populate_component_properties(
                     o0, cfg.estimate_cycle_length, cfg.dampen, cfg.innovations),
                 cfg.cycle_length, cfg.estimate_cycle_length, cfg.dampen, cfg.innovations)
    IN  IF cfg.cycle_length.none /\ ~cfg.estimate_cycle_length THEN Raise("ValueError")
        ELSE IF ~cfg.cycle_length.none /\ cfg.estimate_cycle_length THEN Raise("ValueError")
        ELSE IF r.exc # "none" THEN r
        ELSE Return(WithInfo(r.val, TRUE, EvenStateIdx(2)))

----------------------------------------------------------------------------
(* RegressionComponent *)

_get_state_names(k_exog, state_names, name) ==
    IF k_exog.none /\ state_names.none THEN Raise("ValueError")
    ELSE IF ~state_names.none /\ ~k_exog.none
    THEN IF Len(state_names.l) # k_exog.n THEN Raise("ValueError")
         ELSE Return([k_exog |-> k_exog.n, state_names |-> state_names.l])
    ELSE IF k_exog.none
    THEN Return([k_exog |-> Len(state_names.l), state_names |-> state_names.l])
    ELSE Return([k_exog |-> k_exog.n,
                 state_names |-> [i \in 1..k_exog.n |-> name \o Str("_") \o IntStr(i)]])

Regression_populate_component_properties(o, innovations) ==
    LET beta == Str("beta_") \o o.name
        data == Str("data_") \o o.name
        sigma == Str("sigma_beta_") \o o.name
        es == Str("exog_state")
        o1 == [o EXCEPT
                 !.shock_names = o.state_names,
                 !.param_names = <<beta>>,
                 !.data_names = <<data>>,
                 !.param_dims = << <<beta, <<es>> >> >>,
                 !.param_info = << <<beta, ParamInfo(<<o.k_states>>, "None", <<es>>)>> >>,
                 \* the shape is (None, k_states): None is written -1
                 !.data_info = << <<data, [shape |-> <<0 - 1, o.k_states>>,
                                           dims |-> <<Str("time"), es>>]>> >>,
                 !.coords = << <<es, o.state_names>> >>]
    IN  IF innovations
        THEN [o1 EXCEPT
                !.param_names = @ \o <<sigma>>,
                !.param_dims = DictSet(@, sigma, es),
                !.param_info = DictSet(@, sigma, ParamInfo(<<>>, "Positive", <<es>>))]
        ELSE o1

\* fault variant: the data placeholder is not registered
Regression_make_symbolic_graph_no_data(o, innovations) ==
    LET beta == Str("beta_") \o o.name
        sigma == Str("sigma_beta_") \o o.name
        k == o.k_states
        r1 == make_and_register_variable(o.param_names, o.name_to_variable, beta, <<k>>)
        r2 == make_and_register_variable(o.param_names, r1.reg, sigma, <<k>>)
    IN  IF r1.exc # "none" THEN Raise(r1.exc)
        ELSE IF ~innovations THEN Return([o EXCEPT !.name_to_variable = r1.reg])
        ELSE IF r2.exc # "none" THEN Raise(r2.exc)
        ELSE Return([o EXCEPT !.name_to_variable = r2.reg])

Regression_make_symbolic_graph(o, innovations) ==
    LET beta == Str("beta_") \o o.name
        data == Str("data_") \o o.name
        sigma == Str("sigma_beta_") \o o.name
        k == o.k_states
        r1 == make_and_register_variable(o.param_names, o.name_to_variable, beta, <<k>>)
        rd == make_and_register_data(o.data_names, o.name_to_data, data, <<0 - 1, k>>)
        r2 == make_and_register_variable(o.param_names, r1.reg, sigma, <<k>>)
        ssm1 == [o.ssm EXCEPT
                   !.initial_state = [i \in 1..k |-> Var(beta, i - 1, 0)],
                   !.transition = eye(k, k, 0),
                   !.selection = eye(k, k, 0)]
        ssm2 == [ssm1 EXCEPT
                   !.state_cov = MakeMat(<<k, k>>,
                        [p \in Cells(<<k, k>>) |->
                            IF p[1] = p[2] THEN Sq(sigma, p[1] - 1) ELSE Num(0)])]
    IN  IF r1.exc # "none" THEN Raise(r1.exc)
        ELSE IF rd.exc # "none" THEN Raise(rd.exc)
        ELSE IF ~innovations
        THEN Return([o EXCEPT !.name_to_variable = r1.reg, !.name_to_data = rd.reg,
                              !.ssm = ssm1])
        ELSE IF r2.exc # "none" THEN Raise(r2.exc)
        ELSE Return([o EXCEPT !.name_to_variable = r2.reg, !.name_to_data = rd.reg,
                              !.ssm = ssm2])

RegressionComponent(cfg) ==
    LET h == _get_state_names(cfg.k_exog, cfg.state_names, cfg.name)
        k == h.val.k_exog
        o0 == Component_init_fields(cfg.name, 1, k, k, h.val.state_names, <<>>, <<>>, <<>>,
                  <<Str("data_") \o cfg.name>>, PytensorRepresentation(1, k, k), FALSE)
        r == Regression_make_symbolic_graph(
                 Regression_populate_component_properties(o0, cfg.innovations),
                 cfg.innovations)
    IN  IF h.exc # "none" THEN h
        ELSE IF r.exc # "none" THEN r
        ELSE Return(WithInfo(r.val, FALSE, SomeIdx([i \in 1..k |-> 1])))

----------------------------------------------------------------------------
(* Heap layout of a component *)

ListFields == <<"state_names", "data_names", "shock_names", "param_names", "exog_names">>

DictFields == <<"coords", "param_dims", "param_info", "data_info",
                "name_to_variable", "name_to_data">>

RefFields == ListFields \o DictFields

FieldIndex(f) == CHOOSE i \in 1..Len(RefFields) : RefFields[i] = f

\* the component whose containers are stored at base+1 .. base+11
StoreRefs(o, base) ==
    [f \in DOMAIN o |-> IF f \in Range(RefFields) THEN base + FieldIndex(f) ELSE o[f]]

StoreCells(o) == [i \in 1..Len(RefFields) |-> o[RefFields[i]]]

\* the component with every container attribute dereferenced in heap h
Deref(c, h) ==
    [f \in DOMAIN c |-> IF f \in Range(RefFields) THEN h[c[f]] ELSE c[f]]

----------------------------------------------------------------------------
(* Component.__add__ and its helpers, on dereferenced operands *)

\* fault variant: no check of the endogenous-variable counts
_get_combined_shapes_unchecked(self, other) ==
    Return([k_states |-> self.k_states + other.k_states,
            k_posdef |-> self.k_posdef + other.k_posdef,
            k_endog |-> self.k_endog])

_get_combined_shapes(self, other) ==
    IF self.k_endog # other.k_endog THEN Raise("NotImplementedError")
    ELSE Return([k_states |-> self.k_states + other.k_states,
                 k_posdef |-> self.k_posdef + other.k_posdef,
                 k_endog |-> self.k_endog])

_combine_statespace_representations(self, other) ==
    LET r == _get_combined_shapes(self, other)
    IN  IF r.exc # "none" THEN r
        ELSE Return(
           [ k_endog |-> r.val.k_endog, k_states |-> r.val.k_states,
             k_posdef |-> r.val.k_posdef,
             initial_state |-> self.ssm.initial_state \o other.ssm.initial_state,
             initial_state_cov |->
                 block_diag(self.ssm.initial_state_cov, other.ssm.initial_state_cov),
             transition |-> block_diag(self.ssm.transition, other.ssm.transition),
             selection |-> block_diag(self.ssm.selection, other.ssm.selection),
             state_cov |-> block_diag(self.ssm.state_cov, other.ssm.state_cov) ])

\* fault variant: the other operand's entries are dropped
_combine_property_self_only(self, other, name) == self[name]

_combine_property(self, other, name) ==
    IF name \in Range(ListFields)
    THEN self[name] \o other[name]
    ELSE DictUpdate(self[name], other[name])

\* one of the two loops of _combine_component_info
RECURSIVE CombineInfoLoop(_, _)
CombineInfoLoop(combined_info, items) ==
    IF items = <<>> THEN Return(combined_info)
    ELSE LET key == items[1][1]
             value == items[1][2]
         IN  IF ~StartsWithStateSpace(key)
             THEN IF Contains(DictKeys(combined_info), key)
                  THEN Raise("ValueError")
                  ELSE CombineInfoLoop(DictSet(combined_info, key, value), Tail(items))
             ELSE CombineInfoLoop(combined_info, Tail(items))

_combine_component_info(self, other) ==
    LET r1 == CombineInfoLoop(<<>>, self.component_info)
    IN  IF r1.exc # "none" THEN r1
        ELSE CombineInfoLoop(r1.val, other.component_info)

_make_combined_name(component_info) ==
    Str("StateSpace") \o Str("[") \o Join(Str(", "), DictKeys(component_info)) \o Str("]")

\* fault variant: the name is made of the operands' names
__add___nested_name(self, other) ==
    LET measurement_error == self.measurement_error \/ other.measurement_error
        shapes == _get_combined_shapes(self, other)
        ssm == _combine_statespace_representations(self, other)
        new_comp == Component_init_fields(EmptyStr, 1, shapes.val.k_states,
                        shapes.val.k_posdef, <<>>, <<>>, <<>>, <<>>, <<>>,
                        ssm.val, measurement_error)
        info == _combine_component_info(self, other)
    IN  IF shapes.exc # "none" THEN shapes
        ELSE IF ssm.exc # "none" THEN ssm
        ELSE IF info.exc # "none" THEN info
        ELSE Return(
           [f \in DOMAIN new_comp \cup {"component_info"} |->
              IF f = "component_info" THEN info.val
              ELSE IF f = "name"
              THEN Str("StateSpace") \o Str("[") \o self.name \o Str(", ") \o other.name
                       \o Str("]")
              ELSE IF f \in Range(RefFields) THEN _combine_property(self, other, f)
              ELSE new_comp[f]])

__add__(self, other) ==
    LET measurement_error == self.measurement_error \/ other.measurement_error
        shapes == _get_combined_shapes(self, other)
        ssm == _combine_statespace_representations(self, other)
        new_comp == Component_init_fields(EmptyStr, 1, shapes.val.k_states,
                        shapes.val.k_posdef, <<>>, <<>>, <<>>, <<>>, <<>>,
                        ssm.val, measurement_error)
        info == _combine_component_info(self, other)
    IN  IF shapes.exc # "none" THEN shapes
        ELSE IF ssm.exc # "none" THEN ssm
        ELSE IF info.exc # "none" THEN info
        ELSE Return(
           [f \in DOMAIN new_comp \cup {"component_info"} |->
              IF f = "component_info" THEN info.val
              ELSE IF f = "name" THEN _make_combined_name(info.val)
              ELSE IF f \in Range(RefFields) THEN _combine_property(self, other, f)
              ELSE new_comp[f]])

----------------------------------------------------------------------------
(* StructuralTimeSeries.__init__ (reached through Component.build) *)

Max(a, b) == IF a >= b THEN a ELSE b

\* fault variant: P0 declared as a vector
_add_inital_state_cov_to_properties_vector(param_names, param_dims, param_info, k_states) ==
    LET dims == <<ALL_STATE_DIM, ALL_STATE_AUX_DIM>>
    IN  [ param_names |-> param_names \o <<P0Name>>,
          param_dims |-> DictSet(param_dims, P0Name, dims),
          param_info |-> DictSet(param_info, P0Name,
                            [shape |-> <<k_states>>,
                             constraints |-> "Positive semi-definite",
                             dims |-> dims]) ]

_add_inital_state_cov_to_properties(param_names, param_dims, param_info, k_states) ==
    LET dims == <<ALL_STATE_DIM, ALL_STATE_AUX_DIM>>
    IN  [ param_names |-> param_names \o <<P0Name>>,
          param_dims |-> DictSet(param_dims, P0Name, dims),
          param_info |-> DictSet(param_info, P0Name,
                            [shape |-> <<k_states, k_states>>,
                             constraints |-> "Positive semi-definite",
                             dims |-> dims]) ]

\* pymc_extras.statespace.models.utilities.make_default_coords
make_default_coords(state_names, observed_states, shock_names) ==
    << <<ALL_STATE_DIM, state_names>>, <<ALL_STATE_AUX_DIM, state_names>>,
       <<Str("observed_state"), observed_states>>,
       <<Str("observed_state_aux"), observed_states>>,
       <<Str("shock"), shock_names>>, <<Str("shock_aux"), shock_names>> >>

\* PyMCStateSpace.make_and_register_variable, the registration of the built model
PyMCStateSpace_make_and_register_variable(param_names, name_to_variable, name, shape) ==
    IF ~Contains(param_names, name)
    THEN [exc |-> "ValueError", reg |-> name_to_variable]
    ELSE IF Contains(DictKeys(name_to_variable), name)
    THEN [exc |-> "ValueError", reg |-> name_to_variable]
    ELSE [exc |-> "none",
          reg |-> DictSet(name_to_variable, name, Placeholder(name, shape))]

\* PyMCStateSpace.__init__(k_endog, k_states, k_posdef): the model's dimensions
PyMCStateSpace_init(k_endog, k_states, k_posdef) ==
    [k_endog |-> k_endog, k_states |-> k_states, k_posdef |-> k_posdef]

\* fault variant: a 1x1 dummy selection matrix
DummyShockMatricesSquare(ssm, self_k_states, self_k_posdef) ==
    [ssm EXCEPT !.k_posdef = self_k_posdef,
                !.state_cov = Zeros(<<1, 1, 1>>),
                !.selection = Zeros(<<1, 1, 1>>)]

\* the dummy matrices of a model without shocks
DummyShockMatrices(ssm, self_k_states, self_k_posdef) ==
    [ssm EXCEPT !.k_posdef = self_k_posdef,
                !.state_cov = Zeros(<<1, 1, 1>>),
                !.selection = Zeros(<<1, self_k_states, 1>>)]

ModelRefFields == <<"state_names", "data_names", "shock_names", "param_names",
                    "param_dims", "param_info", "data_info",
                    "name_to_variable", "name_to_data", "exog_names">>

ModelFieldIndex(f) == CHOOSE i \in 1..Len(ModelRefFields) : ModelRefFields[i] = f

\* Runs the constructor on component c in heap h.  heap: h after the in-place
\* updates of the containers passed in; cells: the model's own new containers,
\* to be stored at Len(h)+1 ..; model: the model, holding addresses.
StructuralTimeSeries_init(c, h, name) ==
    LET ssm == c.ssm
        k_states == ssm.k_states
        k_posdef == ssm.k_posdef
        k_endog == ssm.k_endog
        p == _add_inital_state_cov_to_properties(h[c.param_names], h[c.param_dims],
                                                 h[c.param_info], k_states)
        h1 == [h EXCEPT ![c.param_names] = p.param_names,
                        ![c.param_dims] = p.param_dims,
                        ![c.param_info] = p.param_info]
        state_names == h1[c.state_names]
        shock_names == h1[c.shock_names]
        default_coords == make_default_coords(state_names, <<name>>, shock_names)
        h2 == [h1 EXCEPT ![c.coords] = DictUpdate(@, default_coords)]
        dims == PyMCStateSpace_init(k_endog, k_states, Max(1, k_posdef))
        ssm1 == IF k_posdef = 0
                THEN DummyShockMatrices(ssm, dims.k_states, dims.k_posdef)
                ELSE ssm
        param_names == h2[c.param_names]
        reg == PyMCStateSpace_make_and_register_variable(
                   param_names, h2[c.name_to_variable], P0Name,
                   <<dims.k_states, dims.k_states>>)
        P0(i, j) == Var(P0Name, i - 1, j - 1)
        ssm2 == [ssm1 EXCEPT !.initial_state_cov =
                    MakeMat(<<dims.k_states, dims.k_states>>,
                            [q \in Cells(<<dims.k_states, dims.k_states>>) |-> P0(q[1], q[2])])]
        base == Len(h)
        cellval(f) == IF f = "name_to_variable" THEN reg.reg ELSE h2[c[f]]
    IN  [ exc |-> reg.exc,
          heap |-> h2,
          cells |-> [i \in 1..Len(ModelRefFields) |-> cellval(ModelRefFields[i])],
          model |->
            [ name |-> name, k_endog |-> dims.k_endog, k_states |-> dims.k_states,
              k_posdef |-> dims.k_posdef,
              measurement_error |-> c.measurement_error,
              needs_exog_data |-> (Len(h2[c.exog_names]) > 0),
              state_names |-> base + ModelFieldIndex("state_names"),
              data_names |-> base + ModelFieldIndex("data_names"),
              shock_names |-> base + ModelFieldIndex("shock_names"),
              param_names |-> base + ModelFieldIndex("param_names"),
              param_dims |-> base + ModelFieldIndex("param_dims"),
              coords |-> c.coords,
              param_info |-> base + ModelFieldIndex("param_info"),
              data_info |-> base + ModelFieldIndex("data_info"),
              name_to_variable |-> base + ModelFieldIndex("name_to_variable"),
              name_to_data |-> base + ModelFieldIndex("name_to_data"),
              exog_names |-> base + ModelFieldIndex("exog_names"),
              component_info |-> c.component_info,
              ssm |-> ssm2 ] ]

----------------------------------------------------------------------------
(* Extraction of the interpretable series *)

RECURSIVE cumsum(_, _)
cumsum(acc, s) ==
    IF s = <<>> THEN <<>> ELSE <<acc + s[1]>> \o cumsum(acc + s[1], Tail(s))

\* the (start, stop) pairs of the slices
_state_slices_from_info(component_info) ==
    LET comp_states ==
            cumsum(0, <<0>> \o [i \in 1..Len(component_info) |-> component_info[i][2].k_states])
    IN  [i \in 1..(Len(comp_states) - 1) |-> <<comp_states[i], comp_states[i + 1]>>]

\* data is one time step of the hidden-state array: the entries of its last axis.
RECURSIVE HiddenStatesLoop(_, _, _, _, _)
HiddenStatesLoop(i, component_info, state_slices, state_names, data) ==
    IF i > Len(component_info) \/ i > Len(state_slices) THEN Return(<<>>)
    ELSE
    LET info == component_info[i][2]
        s == state_slices[i]
        obs_idx == info.obs_state_idx
        X == PySlice(data, s[1], s[2])
        sum_idx == flatnonzero([n \in 1..Len(obs_idx.idx) |-> obs_idx.idx[n] # 0])
        comp_names == PySlice(state_names, s[1], s[2])
        rest == HiddenStatesLoop(i + 1, component_info, state_slices, state_names, data)
        here ==
            IF obs_idx.none THEN Return(<<>>)
            ELSE IF info.combine_hidden_states
            THEN IF \E n \in 1..Len(sum_idx) : sum_idx[n] >= Len(X)
                 THEN Raise("IndexError")
                 ELSE Return(<<SumSeq([n \in 1..Len(sum_idx) |-> X[sum_idx[n] + 1]])>>)
            ELSE IF Len(comp_names) > Len(X)
                 THEN Raise("IndexError")
                 ELSE Return([j \in 1..Len(comp_names) |-> X[j]])
    IN  IF here.exc # "none" THEN here
        ELSE IF rest.exc # "none" THEN rest
        ELSE Return(here.val \o rest.val)

_hidden_states_from_data(m, h, data) ==
    LET r == HiddenStatesLoop(1, m.component_info,
                 _state_slices_from_info(m.component_info), h[m.state_names], data)
    IN  IF r.exc # "none" THEN r
        ELSE IF r.val = <<>> THEN Raise("ValueError")
        ELSE r

\* the names of the series of a decomposed variable
RECURSIVE SubcomponentNamesLoop(_, _, _, _)
SubcomponentNamesLoop(i, component_info, state_slices, state_names) ==
    IF i > Len(component_info) \/ i > Len(state_slices) THEN <<>>
    ELSE
    LET name == component_info[i][1]
        info == component_info[i][2]
        s == state_slices[i]
        comp_names == PySlice(state_names, s[1], s[2])
        here == IF info.combine_hidden_states THEN <<name>>
                ELSE [j \in 1..Len(comp_names) |->
                         name \o Str("[") \o comp_names[j] \o Str("]")]
    IN  here \o SubcomponentNamesLoop(i + 1, component_info, state_slices, state_names)

_get_subcomponent_names(m, h) ==
    SubcomponentNamesLoop(1, m.component_info,
        _state_slices_from_info(m.component_info), h[m.state_names])

\* one variable of a dataset: its name and one time step of its values, whose
\* length is the variable's last dimension
DataVar(name, row) == [name |-> name, row |-> row]

\* xr.apply_ufunc of _hidden_states_from_data, then the state coordinate is
\* replaced by new_state_names, which must be as long as the new state axis
_extract_and_transform_variable(m, h, v, new_state_names) ==
    LET r == _hidden_states_from_data(m, h, v.row)
    IN  IF r.exc # "none" THEN r
        ELSE IF Len(new_state_names) # Len(r.val) THEN Raise("ValueError")
        ELSE Return([name |-> v.name, row |-> r.val, coords |-> new_state_names])

RECURSIVE ExtractLoop(_, _, _, _)
ExtractLoop(m, h, latent, new_state_names) ==
    IF latent = <<>> THEN Return(<<>>)
    ELSE LET r == _extract_and_transform_variable(m, h, latent[1], new_state_names)
             rest == ExtractLoop(m, h, Tail(latent), new_state_names)
         IN  IF r.exc # "none" THEN r
             ELSE IF rest.exc # "none" THEN rest
             ELSE Return(<<r.val>> \o rest.val)

\* idata is the sequence of the dataset's variables; the result holds the new
\* dataset and whether the warning was logged
extract_components_from_idata(m, h, idata) ==
    LET var_names == [i \in 1..Len(idata) |-> idata[i].name]
        is_latent == [i \in 1..Len(idata) |-> Len(idata[i].row) = m.k_states]
        new_state_names == _get_subcomponent_names(m, h)
        latent == SelectByMask(idata, is_latent)
        latent_names == [i \in 1..Len(latent) |-> latent[i].name]
        dropped_vars == Range(var_names) \ Range(latent_names)
        r == ExtractLoop(m, h, latent, new_state_names)
    IN  IF Cardinality(dropped_vars) = Len(var_names) THEN Raise("ValueError")
        ELSE IF r.exc # "none" THEN r
        ELSE Return([vars |-> r.val, warned |-> Cardinality(dropped_vars) > 0])

----------------------------------------------------------------------------
(* Inputs *)

NameA == Str("A")

NameB == Str("B")

NameC == Str("C")

NameSSX == Str("StateSpace") \o Str("X")

BaseCfg(name, k_endog, k_states, k_posdef, param_names, mask) ==
    [ name |-> name, k_endog |-> k_endog, k_states |-> k_states, k_posdef |-> k_posdef,
      state_names |-> [i \in 1..k_states |-> name \o Str("_") \o Str(ToString(i - 1))],
      param_names |-> param_names,
      data_names |-> <<Str("d_A")>>,
      measurement_error |-> FALSE,
      combine_hidden_states |-> TRUE,
      obs_state_idxs |-> SomeIdx(mask),
      component_from_sum |-> TRUE ]

LTCfg(order, innovations_order) ==
    [order |-> order, innovations_order |-> innovations_order, name |-> Str("LevelTrend")]

MECfg == [name |-> Str("MeasurementError")]

\* the concrete component classes and the arguments their constructors are
\* called with
Classes ==
    { "LevelTrendComponent", "MeasurementError", "AutoregressiveComponent",
      "TimeSeasonality", "FrequencySeasonality", "CycleComponent", "RegressionComponent" }

Masks == UNION { [1..n -> {0, 1}] : n \in 1..3 }

Configs(cls) ==
    CASE cls = "LevelTrendComponent" ->
           { LTCfg(order, io) :
               order \in {IntArg(n) : n \in 0..3} \cup {ListArg(l) : l \in Masks},
               io \in {NoneArg, IntArg(0), IntArg(1)} }
      [] cls = "MeasurementError" -> { MECfg, [name |-> NameA] }
      [] cls = "AutoregressiveComponent" ->
           { [order |-> order, name |-> Str("AutoRegressive")] :
               order \in {IntArg(n) : n \in 0..3} \cup {ListArg(l) : l \in Masks} }
      [] cls = "TimeSeasonality" ->
           [ season_length : 0..4, innovations : BOOLEAN, name : {NoneVal, NameA},
             state_names : {NoneArg, ListArg(<<NameA, NameB, NameC>>)},
             remove_first_state : BOOLEAN ]
      [] cls = "FrequencySeasonality" ->
           [ season_length : 1..6, n : {NoneArg, IntArg(1), IntArg(2)}, name : {NoneVal},
             innovations : BOOLEAN ]
      [] cls = "CycleComponent" ->
           [ name : {NoneVal, NameA}, cycle_length : {NoneArg, IntArg(12)},
             estimate_cycle_length : BOOLEAN, dampen : BOOLEAN, innovations : BOOLEAN ]
      [] cls = "RegressionComponent" ->
           [ k_exog : {NoneArg, IntArg(1), IntArg(2)}, name : {Str("Exogenous")},
             state_names : {NoneArg, ListArg(<<NameA>>), ListArg(<<NameA, NameB>>)},
             innovations : BOOLEAN ]

\* cls(**cfg)
New(cls, cfg) ==
    CASE cls = "LevelTrendComponent" -> LevelTrendComponent(cfg)
      [] cls = "MeasurementError" -> MeasurementError(cfg)
      [] cls = "AutoregressiveComponent" -> AutoregressiveComponent(cfg)
      [] cls = "TimeSeasonality" -> TimeSeasonality(cfg)
      [] cls = "FrequencySeasonality" -> FrequencySeasonality(cfg)
      [] cls = "CycleComponent" -> CycleComponent(cfg)
      [] cls = "RegressionComponent" -> RegressionComponent(cfg)

\* the components a run of Spec starts with
PoolBuild ==
    << Component(BaseCfg(NameA, 1, 3, 1, <<Str("p_A")>>, <<1, 0, 1>>)),
       LevelTrendComponent(LTCfg(ListArg(<<1, 0, 1>>), IntArg(0))),
       MeasurementError(MECfg) >>

\* the components a run of SpecAdd starts with
PoolAdd ==
    << Component(BaseCfg(NameA, 1, 1, 1, <<Str("p_A")>>, <<1>>)),
       Component(BaseCfg(NameB, 2, 2, 1, <<Str("p_B")>>, <<1, 0>>)),
       Component(BaseCfg(NameC, 2, 1, 0, <<Str("p_C")>>, <<1>>)),
       Component(BaseCfg(NameSSX, 1, 1, 0, <<Str("p_X")>>, <<1>>)),
       MeasurementError(MECfg) >>

\* the components a run of SpecParams starts with: two variants of one class,
\* under different names
PoolParams ==
    << AutoregressiveComponent([order |-> IntArg(2), name |-> NameA]),
       AutoregressiveComponent([order |-> ListArg(<<0, 1>>), name |-> NameB]),
       MeasurementError(MECfg) >>

\* the components a run of SpecReg starts with
PoolReg ==
    << Component(BaseCfg(NameA, 1, 1, 1, <<Str("p_A")>>, <<1>>)),
       LevelTrendComponent(LTCfg(IntArg(2), NoneArg)) >>

RegNames == { Str("p_A"), Str("d_A"), Str("initial_trend") }

\* one time step of a hidden-state array with last dimension k
DataRows(k) == { [i \in 1..k |-> 2 ^ (i - 1)], [i \in 1..k |-> 10 * i] }

\* the components a run of SpecExtract starts with
PoolExtract ==
    << LevelTrendComponent(LTCfg(IntArg(2), IntArg(1))),
       MeasurementError(MECfg),
       Component(BaseCfg(NameA, 1, 2, 1, <<Str("p_A")>>, <<0, 1>>)) >>

\* datasets for a model with k states: no variable, one that does not match,
\* one of each, and two that match
Datasets(k) ==
    LET x == DataVar(Str("x"), [i \in 1..k |-> 2 ^ (i - 1)])
        y == DataVar(Str("y"), [i \in 1..(k + 1) |-> 10 * i])
        z == DataVar(Str("z"), [i \in 1..k |-> 10 * i])
    IN  { <<>>, <<y>>, <<y, x>>, <<x, z>> }

----------------------------------------------------------------------------
(* State.  comps: the components created so far; models: the models built  *)
(* so far; heap: the lists and dicts they hold; last: the last call and    *)
(* its outcome.  operands (of a component) and src (of a model) record     *)
(* where an object came from.                                              *)

Last(op, a, b, name, exc, ret, arg, out) ==
    [op |-> op, a |-> a, b |-> b, name |-> name, exc |-> exc, ret |-> ret,
     arg |-> arg, out |-> out]

Failed(op, exc) == Last(op, 0, 0, EmptyStr, exc, 0, <<>>, <<>>)

WithOperands(c, ops) ==
    [f \in DOMAIN c \cup {"operands"} |-> IF f = "operands" THEN ops ELSE c[f]]

WithSrc(m, i) == [f \in DOMAIN m \cup {"src"} |-> IF f = "src" THEN i ELSE m[f]]

RECURSIVE PoolHeap(_)
PoolHeap(pool) ==
    IF pool = <<>> THEN <<>> ELSE StoreCells(pool[1].val) \o PoolHeap(Tail(pool))

PoolComps(pool) ==
    [i \in 1..Len(pool) |->
        WithOperands(StoreRefs(pool[i].val, (i - 1) * Len(RefFields)), <<>>)]

InitPool(pool) ==
    /\ comps = PoolComps(pool)
    /\ heap = PoolHeap(pool)
    /\ models = <<>>
    /\ last = Last("init", 0, 0, EmptyStr, "none", 0, <<>>, <<>>)

NumSums == Cardinality({i \in 1..Len(comps) : comps[i].operands # <<>>})

\* fault variant: the combined property is built in the left operand's object
CombinedPropertyCellShared(self_cell, fresh_cell) == self_cell

\* the object a combined property lives in: self_prop + other_prop and
\* self_prop.copy() make a new object
CombinedPropertyCell(self_cell, fresh_cell) == fresh_cell

Add(i, j) ==
    \E r \in {__add__(Deref(comps[i], heap), Deref(comps[j], heap))} :
    LET a == comps[i]
        base == Len(heap)
        c == [f \in DOMAIN r.val |->
                IF f \in Range(RefFields)
                THEN CombinedPropertyCell(a[f], base + FieldIndex(f))
                ELSE r.val[f]]
        ext == heap \o StoreCells(r.val)
    IN  IF r.exc = "none"
        THEN /\ comps' = Append(comps, WithOperands(c, <<i, j>>))
             /\ heap' = [n \in 1..Len(ext) |->
                           IF \E f \in Range(RefFields) : c[f] = n
                           THEN r.val[CHOOSE f \in Range(RefFields) : c[f] = n]
                           ELSE ext[n]]
             /\ last' = Last("add", i, j, EmptyStr, "none", Len(comps) + 1, <<>>, <<>>)
             /\ UNCHANGED models
        ELSE /\ last' = Failed("add", r.exc)
             /\ UNCHANGED <<comps, heap, models>>

Build(i) ==
    /\ Len(models) < MaxModels
    /\ \E r \in {StructuralTimeSeries_init(comps[i], heap, Str("data"))} :
        /\ IF r.exc = "none"
           THEN /\ heap' = r.heap \o r.cells
                /\ models' = Append(models, WithSrc(r.model, i))
                /\ last' = Last("build", i, 0, EmptyStr, "none", Len(models) + 1, <<>>, <<>>)
           ELSE /\ heap' = r.heap
                /\ UNCHANGED models
                /\ last' = Failed("build", r.exc)
        /\ UNCHANGED comps

\* a constructor call: on success the new component is comps[last.ret] and
\* last.out holds what else the call determined; on failure nothing is created
\* and the exception ends the run
Construct(cls, cfg) ==
    /\ Len(comps) < MaxNew
    /\ last.exc = "none"
    /\ \E r \in {New(cls, cfg)} :
        IF r.exc = "none"
        THEN /\ comps' = Append(comps, WithOperands(StoreRefs(r.val, Len(heap)), <<>>))
             /\ heap' = heap \o StoreCells(r.val)
             /\ last' = Last(cls, 0, 0, EmptyStr, "none", Len(comps) + 1, cfg,
                             [f \in DOMAIN r \ {"exc", "val"} |-> r[f]])
             /\ UNCHANGED models
        ELSE /\ last' = Last(cls, 0, 0, EmptyStr, r.exc, 0, cfg, <<>>)
             /\ UNCHANGED <<comps, heap, models>>

RegisterVariable(i, name) ==
    \E r \in {make_and_register_variable(heap[comps[i].param_names],
                                         heap[comps[i].name_to_variable], name, <<>>)} :
        /\ heap' = [heap EXCEPT ![comps[i].name_to_variable] = r.reg]
        /\ last' = IF r.exc = "none"
                   THEN Last("make_and_register_variable", i, 0, name, "none", 0, <<>>, <<>>)
                   ELSE Failed("make_and_register_variable", r.exc)
        /\ UNCHANGED <<comps, models>>

RegisterData(i, name) ==
    \E r \in {make_and_register_data(heap[comps[i].data_names],
                                     heap[comps[i].name_to_data], name, <<>>)} :
        /\ heap' = [heap EXCEPT ![comps[i].name_to_data] = r.reg]
        /\ last' = IF r.exc = "none"
                   THEN Last("make_and_register_data", i, 0, name, "none", 0, <<>>, <<>>)
                   ELSE Failed("make_and_register_data", r.exc)
        /\ UNCHANGED <<comps, models>>

Decompose(m, data) ==
    \E r \in {_hidden_states_from_data(models[m], heap, data)} :
        /\ last' = Last("_hidden_states_from_data", m, 0, EmptyStr, r.exc, 0, data,
                        IF r.exc = "none" THEN r.val ELSE <<>>)
        /\ UNCHANGED <<comps, heap, models>>

Extract(m, idata) ==
    \E r \in {extract_components_from_idata(models[m], heap, idata)} :
        /\ last' = Last("extract_components_from_idata", m, 0, EmptyStr, r.exc, 0, idata,
                        IF r.exc = "none" THEN r.val ELSE <<>>)
        /\ UNCHANGED <<comps, heap, models>>

----------------------------------------------------------------------------
(* Specifications *)

\* composition, build and extraction
Init == InitPool(PoolBuild)

Next ==
    \/ \E i, j \in 1..Len(comps) : NumSums < MaxSums /\ Add(i, j)
    \/ \E i \in 1..Len(comps) : Build(i)
    \/ \E m \in 1..Len(models) : \E data \in DataRows(models[m].k_states) : Decompose(m, data)

Spec == Init /\ [][Next]_vars

\* nested composition
InitAdd == InitPool(PoolAdd)

NextAdd == \E i, j \in 1..Len(comps) : NumSums < MaxAdds /\ Add(i, j)

SpecAdd == InitAdd /\ [][NextAdd]_vars

\* placeholder registration
InitReg == InitPool(PoolReg)

NextReg ==
    \/ \E i, j \in 1..Len(comps) : NumSums < MaxSums /\ Add(i, j)
    \/ \E i \in 1..Len(comps), name \in RegNames : RegisterVariable(i, name)
    \/ \E i \in 1..Len(comps), name \in RegNames : RegisterData(i, name)

SpecReg == InitReg /\ [][NextReg]_vars

\* extraction from a dataset
InitExtract == InitPool(PoolExtract)

NextExtract ==
    \/ \E i, j \in 1..Len(comps) : NumSums < MaxSums /\ Add(i, j)
    \/ \E i \in 1..Len(comps) : Build(i)
    \/ \E m \in 1..Len(models) : \E idata \in Datasets(models[m].k_states) : Extract(m, idata)

SpecExtract == InitExtract /\ [][NextExtract]_vars

\* composition and build of components that declare the same parameter names
InitParams == InitPool(PoolParams)

SpecParams == InitParams /\ [][Next]_vars

\* construction of the concrete components
InitNew == InitPool(<<>>)

NextNew == \E cls \in Classes : \E cfg \in Configs(cls) : Construct(cls, cfg)

SpecNew == InitNew /\ [][NextNew]_vars

----------------------------------------------------------------------------
(* Properties *)

SumIds == {c \in 1..Len(comps) : comps[c].operands # <<>>}

CompCells(c) == {comps[c][f] : f \in Range(RefFields)}

ModelOfSum(m) == comps[models[m].src].operands # <<>>

\* C1: for two components a and b with equal k_endog, the model built from a + b
\* has k_states = a.k_states + b.k_states, and its param_names contains every
\* name of a.param_names, every name of b.param_names, and "P0".
C1_ComposeThenBuild ==
    \A m \in 1..Len(models) :
        ModelOfSum(m) =>
            LET c == comps[models[m].src]
                a == comps[c.operands[1]]
                b == comps[c.operands[2]]
                pn == heap[models[m].param_names]
            IN  a.k_endog = b.k_endog =>
                    /\ models[m].k_states = a.k_states + b.k_states
                    /\ Range(heap[a.param_names]) \subseteq Range(pn)
                    /\ Range(heap[b.param_names]) \subseteq Range(pn)
                    /\ Contains(pn, P0Name)

C1_Witness ==
    \E m \in 1..Len(models) :
        /\ ModelOfSum(m)
        /\ LET c == comps[models[m].src]
           IN  /\ comps[c.operands[1]].k_states > 0
               /\ comps[c.operands[2]].k_states > 0
               /\ heap[comps[c.operands[2]].param_names] # <<>>

\* C2: make_and_register_variable(name, shape) raises ValueError when name is not
\* in param_names or is already registered, leaving the registry unchanged, and
\* otherwise adds exactly that name; make_and_register_data does the same against
\* data_names and the data registry.  So every registered name is a declared name
\* and is registered once.
C2_Registration ==
    /\ [](\A i \in 1..Len(comps) :
            LET c == comps[i]
                vkeys == DictKeys(heap[c.name_to_variable])
                dkeys == DictKeys(heap[c.name_to_data])
            IN  /\ Range(vkeys) \subseteq Range(heap[c.param_names])
                /\ Range(dkeys) \subseteq Range(heap[c.data_names])
                /\ \A k \in Range(vkeys) : Count(vkeys, k) = 1
                /\ \A k \in Range(dkeys) : Count(dkeys, k) = 1)
    /\ [][\A i \in 1..Len(comps) : \A name \in RegNames :
            /\ RegisterVariable(i, name) =>
                 LET c == comps[i]
                     reg == heap[c.name_to_variable]
                     reg2 == heap'[c.name_to_variable]
                 IN  IF ~Contains(heap[c.param_names], name) \/ DictHas(reg, name)
                     THEN last'.exc = "ValueError" /\ reg2 = reg
                     ELSE /\ last'.exc = "none"
                          /\ DictKeys(reg2) = Append(DictKeys(reg), name)
                          /\ \A k \in Range(DictKeys(reg)) : DictGet(reg2, k) = DictGet(reg, k)
            /\ RegisterData(i, name) =>
                 LET c == comps[i]
                     reg == heap[c.name_to_data]
                     reg2 == heap'[c.name_to_data]
                 IN  IF ~Contains(heap[c.data_names], name) \/ DictHas(reg, name)
                     THEN last'.exc = "ValueError" /\ reg2 = reg
                     ELSE /\ last'.exc = "none"
                          /\ DictKeys(reg2) = Append(DictKeys(reg), name)
                          /\ \A k \in Range(DictKeys(reg)) : DictGet(reg2, k) = DictGet(reg, k)
         ]_vars

\* a second registration of a name that an earlier call registered has failed
C2_Witness ==
    /\ last.op = "make_and_register_variable"
    /\ last.exc = "ValueError"
    /\ \E i \in 1..Len(comps) :
          /\ DictHas(heap[comps[i].name_to_variable], Str("p_A"))
          /\ DictHas(heap[comps[i].name_to_data], Str("d_A"))

\* C3: a + b raises NotImplementedError whenever a.k_endog # b.k_endog; no
\* component is returned and both operands are left unchanged.
C3_EndogMismatch ==
    [][\A i, j \in 1..Len(comps) :
          (comps[i].k_endog # comps[j].k_endog /\ Add(i, j)) =>
              /\ last'.exc = "NotImplementedError"
              /\ comps' = comps
              /\ heap' = heap
      ]_vars

C3_Witness == last.op = "add" /\ last.exc = "NotImplementedError"

SharedName(i, j) ==
    \E k \in Range(DictKeys(comps[i].component_info)) :
        k \in Range(DictKeys(comps[j].component_info))

\* C4: a + b (operands of equal k_endog) raises ValueError whenever some
\* constituent component name occurs in both operands' component-info tables, and
\* succeeds only when the constituent names are pairwise distinct, whatever the
\* names are.
C4_DuplicateNames ==
    [][\A i, j \in 1..Len(comps) :
          (Add(i, j) /\ comps[i].k_endog = comps[j].k_endog) =>
              /\ SharedName(i, j) => last'.exc = "ValueError"
              /\ last'.exc = "none" => ~SharedName(i, j)
      ]_vars

\* C5: for operands of equal k_endog, a + b has k_states = a.k_states + b.k_states,
\* k_posdef = a.k_posdef + b.k_posdef and k_endog equal to the common k_endog.
C5_CombinedShapes ==
    \A c \in SumIds :
        LET a == comps[comps[c].operands[1]]
            b == comps[comps[c].operands[2]]
        IN  a.k_endog = b.k_endog =>
               /\ comps[c].k_states = a.k_states + b.k_states
               /\ comps[c].k_posdef = a.k_posdef + b.k_posdef
               /\ comps[c].k_endog = a.k_endog

RECURSIVE Leaves(_)
Leaves(c) ==
    IF comps[c].operands = <<>> THEN <<comps[c].name>>
    ELSE Leaves(comps[c].operands[1]) \o Leaves(comps[c].operands[2])

\* C6: the name of a composed component is "StateSpace[" + the names of all its
\* leaf constituents, in composition order, joined by ", " + "]": a flat list of
\* leaf names, after any number of nested additions.
C6_CombinedName ==
    \A c \in SumIds :
        comps[c].name =
            Str("StateSpace") \o Str("[") \o Join(Str(", "), Leaves(c)) \o Str("]")

\* C7: c = a + b returns a component whose lists, dicts and registries are new
\* objects, and leaves every container of every existing component as it was; a
\* later change of c's containers, such as those made by c.build(), changes no
\* container of another component.
C7_FreshContainers ==
    /\ [](\A c \in SumIds :
            /\ Cardinality(CompCells(c)) = Len(RefFields)
            /\ \A d \in 1..Len(comps) : d # c => CompCells(c) \cap CompCells(d) = {})
    /\ [][\A i, j \in 1..Len(comps) :
            (last'.op = "add" /\ last'.exc = "none" /\ last'.a = i /\ last'.b = j
                /\ Add(i, j)) =>
                \A d \in 1..Len(comps) :
                    /\ comps'[d] = comps[d]
                    /\ \A n \in CompCells(d) : heap'[n] = heap[n]
         ]_vars
    /\ [][\A c \in SumIds :
            Build(c) =>
                \A d \in 1..Len(comps) :
                    d # c => \A n \in CompCells(d) : heap'[n] = heap[n]
         ]_vars

\* a composed component has been built, which appended to its own containers
C7_Witness ==
    \E m \in 1..Len(models) :
        /\ ModelOfSum(m)
        /\ Contains(heap[comps[models[m].src].param_names], P0Name)
        /\ \A k \in 1..2 :
              ~Contains(heap[comps[comps[models[m].src].operands[k]].param_names], P0Name)

\* C8: every built model has "P0" in param_names, param_info["P0"] with shape
\* (k_states, k_states) and the positive-semi-definite constraint, and a "P0"
\* placeholder of that shape, registered and installed as initial_state_cov.
C8_InitialStateCov ==
    \A m \in 1..Len(models) :
        LET M == models[m]
            k == M.k_states
            info == heap[M.param_info]
            reg == heap[M.name_to_variable]
        IN  /\ Contains(heap[M.param_names], P0Name)
            /\ DictHas(info, P0Name)
            /\ DictGet(info, P0Name).shape = <<k, k>>
            /\ DictGet(info, P0Name).constraints = "Positive semi-definite"
            /\ DictHas(reg, P0Name)
            /\ DictGet(reg, P0Name) = Placeholder(P0Name, <<k, k>>)
            /\ M.ssm.initial_state_cov.shape = <<k, k>>
            /\ \A p \in (1..k) \X (1..k) :
                   M.ssm.initial_state_cov.e[p] = Var(P0Name, p[1] - 1, p[2] - 1)

C8_Witness ==
    /\ \E m \in 1..Len(models) : ModelOfSum(m) /\ models[m].k_states >= 2
    /\ \E m \in 1..Len(models) : models[m].k_states >= 2

\* C9 as stated: when the built component has k_posdef = 0 the model's selection
\* and state_cov are zero matrices of size 1x1 and the model's k_posdef is 1; always
\* the model's k_posdef is max(1, component k_posdef).
C9_DummyBothOneByOne ==
    \A m \in 1..Len(models) :
        LET M == models[m]
            c == comps[M.src]
        IN  /\ M.k_posdef = Max(1, c.k_posdef)
            /\ c.k_posdef = 0 =>
                  /\ M.k_posdef = 1
                  /\ IsZeroMat(M.ssm.selection) /\ IsZeroMat(M.ssm.state_cov)
                  /\ Rows(M.ssm.state_cov) = 1 /\ Cols(M.ssm.state_cov) = 1
                  /\ Rows(M.ssm.selection) = 1 /\ Cols(M.ssm.selection) = 1

\* C9 (amended): when the built component has k_posdef = 0 the model's state_cov is
\* a zero matrix of size 1x1, its selection is a zero matrix of size k_states x 1,
\* and its k_posdef is 1; always the model's k_posdef is max(1, component k_posdef).
C9_DummyMatrices ==
    \A m \in 1..Len(models) :
        LET M == models[m]
            c == comps[M.src]
        IN  /\ M.k_posdef = Max(1, c.k_posdef)
            /\ c.k_posdef = 0 =>
                  /\ M.k_posdef = 1
                  /\ M.ssm.k_posdef = 1
                  /\ IsZeroMat(M.ssm.selection) /\ IsZeroMat(M.ssm.state_cov)
                  /\ Rows(M.ssm.state_cov) = 1 /\ Cols(M.ssm.state_cov) = 1
                  /\ Rows(M.ssm.selection) = M.k_states /\ Cols(M.ssm.selection) = 1

C9_Witness ==
    \E m \in 1..Len(models) :
        comps[models[m].src].k_posdef = 0 /\ models[m].k_states = 3

\* the decomposition the algorithm of C10 describes
RECURSIVE ExpectedSeries(_, _, _)
ExpectedSeries(component_info, start, data) ==
    IF component_info = <<>> THEN <<>>
    ELSE LET info == component_info[1][2]
             slice == [n \in 1..info.k_states |-> data[start + n]]
             mask == info.obs_state_idx.idx
             selected == {n \in 1..info.k_states : n <= Len(mask) /\ mask[n] # 0}
             picked == [n \in 1..info.k_states |-> IF n \in selected THEN slice[n] ELSE 0]
         IN  (IF info.combine_hidden_states THEN <<SumSeq(picked)>> ELSE slice)
             \o ExpectedSeries(Tail(component_info), start + info.k_states, data)

\* C10: decomposing a hidden-state array of last dimension k_states cuts the state
\* axis into contiguous slices, one per component in composition order, as wide as
\* the component's k_states; a combine component gives one series, the sum of the
\* columns of its slice selected by the non-zero entries of its mask; any other
\* component gives each column of its slice, unchanged and in order.
C10_Decomposition ==
    last.op = "_hidden_states_from_data" =>
        LET M == models[last.a]
            expected == ExpectedSeries(M.component_info, 0, last.arg)
        IN  expected # <<>> => (last.exc = "none" /\ last.out = expected)

\* the variables of the dataset last.arg whose last dimension is k
Matching(idata, k) == SelectByMask(idata, [i \in 1..Len(idata) |-> Len(idata[i].row) = k])

\* C11: extract_components_from_idata raises ValueError when no variable of the
\* dataset has last dimension k_states; otherwise it returns exactly the variables
\* whose last dimension is k_states, in order and each decomposed, and it warns
\* exactly when some variable was dropped.
C11_Extract ==
    last.op = "extract_components_from_idata" =>
        LET M == models[last.a]
            match == Matching(last.arg, M.k_states)
        IN  IF match = <<>>
            THEN last.exc = "ValueError"
            ELSE /\ last.exc = "none"
                 /\ Len(last.out.vars) = Len(match)
                 /\ \A i \in 1..Len(match) :
                       /\ last.out.vars[i].name = match[i].name
                       /\ last.out.vars[i].row =
                             _hidden_states_from_data(M, heap, match[i].row).val
                 /\ last.out.warned = (Len(match) < Len(last.arg))

\* the component a successful constructor call has just made
Made == Deref(comps[last.ret], heap)

\* C12: after every successful construction of a concrete component, the
\* names in the placeholder registry are exactly the declared param_names and
\* the names in the data registry are exactly the declared data_names.
C12_RegistryMatchesDeclared ==
    (last.op \in Classes /\ last.exc = "none") =>
        /\ Range(DictKeys(Made.name_to_variable)) = Range(Made.param_names)
        /\ Range(DictKeys(Made.name_to_data)) = Range(Made.data_names)

C12_Witness ==
    /\ last.op = "RegressionComponent" /\ last.exc = "none"
    /\ last.arg.innovations
    /\ Len(Made.param_names) = 2 /\ Len(Made.data_names) = 1
    /\ Len(Made.name_to_variable) = 2 /\ Len(Made.name_to_data) = 1

\* C13: a TimeSeasonality with season_length s has k_states s - 1 and the
\* supplied or generated names without the first one when remove_first_state
\* is set, and k_states s with all s names otherwise; the caller's list is
\* left as it was, and a supplied list of another length gives ValueError.
C13_TimeSeasonalityStates ==
    last.op = "TimeSeasonality" =>
        LET cfg == last.arg
            s == cfg.season_length
            full == IF cfg.state_names.none
                    THEN [i \in 1..s |-> Made.name \o Str("_") \o IntStr(i - 1)]
                    ELSE cfg.state_names.l
        IN  /\ (~cfg.state_names.none /\ Len(cfg.state_names.l) # s)
                  => last.exc = "ValueError"
            /\ last.exc = "none" =>
                  /\ Len(full) = s
                  /\ last.out.supplied = cfg.state_names.l
                  /\ IF cfg.remove_first_state
                     THEN Made.k_states = s - 1 /\ Made.state_names = Tail(full)
                     ELSE Made.k_states = s /\ Made.state_names = full

C13_Witness ==
    /\ last.op = "TimeSeasonality" /\ last.exc = "none"
    /\ ~last.arg.state_names.none /\ last.arg.remove_first_state
    /\ Made.k_states = 2 /\ Made.state_names = <<NameB, NameC>>
    /\ last.out.supplied = <<NameA, NameB, NameC>>

\* C14: periodicity law.  For season_length s >= 2 and either setting of
\* remove_first_state the transition matrix T of a TimeSeasonality has
\* T^s = identity: s steps with zero shocks return every state vector.
C14_Periodicity ==
    (last.op = "TimeSeasonality" /\ last.exc = "none" /\ last.arg.season_length >= 2) =>
        LET k == Made.k_states
            idx == (1..k) \X (1..k)
            T == Made.ssm.transition.e
            RECURSIVE Dot(_, _, _)
            Dot(A, p, l) ==
                IF l = 0 THEN 0 ELSE A[<<p[1], l>>] * T[<<l, p[2]>>][5] + Dot(A, p, l - 1)
            RECURSIVE Pow(_)
            Pow(n) ==
                IF n = 0 THEN [p \in idx |-> IF p[1] = p[2] THEN 1 ELSE 0]
                ELSE [p \in idx |-> Dot(Pow(n - 1), p, k)]
        IN  /\ Made.ssm.transition.shape = <<k, k>>
            /\ \A p \in idx : T[p][1] = "num"
            /\ Pow(last.arg.season_length) = Pow(0)

C14_Witness ==
    /\ last.op = "TimeSeasonality" /\ last.exc = "none"
    /\ last.arg.season_length = 4 /\ last.arg.remove_first_state
    /\ Made.ssm.transition.shape = <<3, 3>>
    /\ \A j \in 1..3 : Made.ssm.transition.e[<<1, j>>] = Num(0 - 1)
    /\ Made.ssm.transition.e[<<2, 1>>] = Num(1)

\* the initial states of the constructed component that carry a parameter
Parameterized == {i \in 1..Made.k_states : Made.ssm.initial_state[i][1] = "var"}

C16_CycleArguments ==
    /\ [](last.op = "CycleComponent" =>
            IF last.arg.cycle_length.none = last.arg.estimate_cycle_length
            THEN /\ last.exc = "none"
                 /\ Contains(Made.param_names, Made.name \o Str("_length"))
                        = last.arg.estimate_cycle_length
                 /\ DictHas(Made.name_to_variable, Made.name \o Str("_length"))
                        = last.arg.estimate_cycle_length
            ELSE last.exc = "ValueError" /\ last.ret = 0)
    /\ [][(last'.op = "CycleComponent"
             /\ last'.arg.cycle_length.none # last'.arg.estimate_cycle_length)
          => UNCHANGED <<comps, heap, models>>]_vars

C16_Witness ==
    /\ last.op = "CycleComponent" /\ last.exc = "none"
    /\ last.arg.estimate_cycle_length /\ last.arg.cycle_length.none
    /\ last.arg.name = NameA
    /\ Contains(Made.param_names, NameA \o Str("_length"))
    /\ DictHas(Made.name_to_variable, NameA \o Str("_length"))

\* C17: constructing a LevelTrendComponent with an order mask whose last entry
\* is zero raises ValueError, the all-zero mask included; a mask whose last
\* entry is not zero is accepted and gives k_states equal to its length.
C17_OrderMask ==
    (last.op = "LevelTrendComponent" /\ ~last.arg.order.isint) =>
        LET mask == last.arg.order.l
        IN  IF mask[Len(mask)] = 0
            THEN last.exc = "ValueError"
            ELSE last.exc = "none" /\ Made.k_states = Len(mask)

C19_BlockDiagonal ==
    \A c \in SumIds :
        \A f \in {"transition", "selection", "state_cov", "initial_state_cov"} :
            LET A == comps[comps[c].operands[1]].ssm[f]
                B == comps[comps[c].operands[2]].ssm[f]
                M == comps[c].ssm[f]
            IN  /\ M.shape = <<Rows(A) + Rows(B), Cols(A) + Cols(B)>>
                /\ DOMAIN M.e = Cells(M.shape)
                /\ \A p \in DOMAIN M.e :
                      M.e[p] = IF p[1] <= Rows(A) /\ p[2] <= Cols(A) THEN A.e[p]
                               ELSE IF p[1] > Rows(A) /\ p[2] > Cols(A)
                               THEN B.e[<<p[1] - Rows(A), p[2] - Cols(A)>>]
                               ELSE Num(0)

C19_Witness ==
    \E c \in SumIds :
        LET a == comps[comps[c].operands[1]]
            b == comps[comps[c].operands[2]]
        IN  /\ a.name = Str("LevelTrend") /\ b.name = NameA
            /\ ~IsZeroMat(a.ssm.transition) /\ ~IsZeroMat(a.ssm.state_cov)
            /\ comps[c].ssm.transition.shape = <<4, 4>>
            /\ comps[c].ssm.selection.shape = <<4, 2>>
            /\ comps[c].ssm.transition.e[<<1, 2>>] = Num(1)
            /\ comps[c].ssm.transition.e[<<1, 3>>] = Num(0)

\* C20: composition is associative on metadata.  For components a, b, c with
\* pairwise distinct names and equal k_endog, (a + b) + c and a + (b + c) have
\* the same name, k_states, k_posdef, state_names, shock_names, param_names,
\* data_names, exog_names (in order), measurement_error flag and
\* component-info table: when the sum just made is (a + b) + c, a + (b + c) can
\* be made too and agrees with it, and the other way round.
C20_Associative ==
    (last.op = "add" /\ last.exc = "none") =>
        LET made == Deref(comps[last.ret], heap)
            x == Deref(comps[last.a], heap)
            y == Deref(comps[last.b], heap)
            Distinct(a, b, c) ==
                /\ a.name # b.name /\ a.name # c.name /\ b.name # c.name
                /\ a.k_endog = b.k_endog /\ b.k_endog = c.k_endog
            Same(other) ==
                /\ other.exc = "none"
                /\ \A f \in { "name", "k_states", "k_posdef", "state_names", "shock_names",
                              "param_names", "data_names", "exog_names",
                              "measurement_error", "component_info" } :
                      made[f] = other.val[f]
        IN  /\ x.operands # <<>> =>
                 LET a == Deref(comps[x.operands[1]], heap)
                     b == Deref(comps[x.operands[2]], heap)
                     bc == __add__(b, y)
                 IN  Distinct(a, b, y) => (bc.exc = "none" /\ Same(__add__(a, bc.val)))
            /\ y.operands # <<>> =>
                 LET b == Deref(comps[y.operands[1]], heap)
                     c == Deref(comps[y.operands[2]], heap)
                     ab == __add__(x, b)
                 IN  Distinct(x, b, c) => (ab.exc = "none" /\ Same(__add__(ab.val, c)))

C20_Witness ==
    /\ last.op = "add" /\ last.exc = "none"
    /\ comps[last.a].operands # <<>> /\ comps[last.b].operands = <<>>
    /\ LET a == comps[comps[last.a].operands[1]]
           b == comps[comps[last.a].operands[2]]
           c == comps[last.b]
       IN  /\ a.operands = <<>> /\ b.operands = <<>>
           /\ a.name = NameA /\ b.name = Str("MeasurementError") /\ c.name = NameSSX
           /\ comps[last.ret].k_states = 2
           /\ Len(heap[comps[last.ret].param_names]) = 3

\* C21: for every built model the sub-series names have one entry per column
\* of the decomposed array, in the same order: a combine component gives its
\* name for its one summed column, any other component gives
\* "<component name>[<state name>]" for each column of its slice, with the name
\* of that very state of that component.
C21_SubseriesNames ==
    \A m \in 1..Len(models) :
        LET M == models[m]
            info == M.component_info
            names == _get_subcomponent_names(M, heap)
            cols == _hidden_states_from_data(M, heap, [i \in 1..M.k_states |-> 2 ^ (i - 1)])
            LeafNames(key) ==
                heap[comps[CHOOSE c \in 1..Len(comps) :
                              comps[c].operands = <<>> /\ comps[c].name = key].state_names]
            RECURSIVE Expected(_)
            Expected(i) ==
                IF i > Len(info) THEN <<>>
                ELSE (IF info[i][2].combine_hidden_states THEN <<info[i][1]>>
                      ELSE [j \in 1..info[i][2].k_states |->
                              info[i][1] \o Str("[") \o LeafNames(info[i][1])[j] \o Str("]")])
                     \o Expected(i + 1)
        IN  /\ \A i \in 1..Len(info) :
                  ~info[i][2].combine_hidden_states =>
                      Len(LeafNames(info[i][1])) = info[i][2].k_states
            /\ names = Expected(1)
            /\ cols.exc = "none" => Len(cols.val) = Len(names)

\* C22: TimeSeasonality with remove_first_state and zero shocks.  With the
\* initial state vector init of length s - 1, the first state (the one the design
\* matrix observes) is -sum(init) after 1 step, init[s - j] (0-based) after j
\* steps for 2 <= j <= s, and -sum(init) again after s + 1 steps.
C22_SeasonalEffects ==
    (last.op = "TimeSeasonality" /\ last.exc = "none" /\ last.arg.remove_first_state) =>
        LET k == Made.k_states
            s == last.arg.season_length
            T == Made.ssm.transition.e
            InitValues == {0 - 1, 0, 2}
            RECURSIVE Sum(_, _)
            Sum(x, l) == IF l = 0 THEN 0 ELSE x[l] + Sum(x, l - 1)
            RECURSIVE Row(_, _, _)
            Row(x, i, l) == IF l = 0 THEN 0 ELSE T[<<i, l>>][5] * x[l] + Row(x, i, l - 1)
            RECURSIVE Step(_, _)
            Step(x, n) == IF n = 0 THEN x
                          ELSE LET y == Step(x, n - 1) IN [i \in 1..k |-> Row(y, i, k)]
        IN  /\ k = s - 1
            /\ Made.component_info[1][2].obs_state_idx.idx = [i \in 1..k |-> IF i = 1 THEN 1 ELSE 0]
            /\ \A i \in 1..k : Made.ssm.initial_state[i] = Var(Made.name \o Str("_coefs"), i - 1, 0)
            /\ \A init \in [1..k -> InitValues] :
                  /\ Step(init, 1)[1] = 0 - Sum(init, k)
                  /\ \A j \in 2..s : Step(init, j)[1] = init[(s - j) + 1]
                  /\ Step(init, s + 1)[1] = 0 - Sum(init, k)

C22_Witness ==
    /\ last.op = "TimeSeasonality" /\ last.exc = "none" /\ last.arg.remove_first_state
    /\ last.arg.season_length = 4 /\ Made.k_states = 3
    /\ Made.ssm.transition.e[<<1, 3>>] = Num(0 - 1)
    /\ Made.ssm.transition.e[<<3, 2>>] = Num(1)

\* C23: an AutoregressiveComponent made with lag mask m of length p (an integer
\* order p is the mask of p ones) has k_states = p; row 0 of its transition
\* matrix holds the coefficients of ar_params, in order, at exactly the columns
\* the mask includes and zero at the excluded ones; the first sub-diagonal holds
\* ones and every other entry is zero; the registered ar_params has as many
\* coefficients as the mask includes lags.
C23_ARTransition ==
    (last.op = "AutoregressiveComponent" /\ last.exc = "none") =>
        LET order == last.arg.order
            p == IF order.isint THEN order.n ELSE Len(order.l)
            m == [i \in 1..p |-> order.isint \/ order.l[i] # 0]
            Before(i) == Cardinality({j \in 1..(i - 1) : m[j]})
            T == Made.ssm.transition
            reg == Made.name_to_variable
        IN  /\ Made.k_states = p
            /\ T.shape = <<p, p>>
            /\ \A i \in 1..p : \A j \in 1..p :
                  T.e[<<i, j>>] = IF i = 1 /\ m[j] THEN Var(Str("ar_params"), Before(j), 0)
                                 ELSE IF i = j + 1 THEN Num(1)
                                 ELSE Num(0)
            /\ \E n \in 1..Len(reg) :
                  /\ reg[n][1] = Str("ar_params")
                  /\ reg[n][2].shape = <<Before(p + 1)>>

C23_Witness ==
    /\ last.op = "AutoregressiveComponent" /\ last.exc = "none"
    /\ last.arg.order = ListArg(<<1, 0, 1>>)
    /\ Made.ssm.transition.e[<<1, 1>>] = Var(Str("ar_params"), 0, 0)
    /\ Made.ssm.transition.e[<<1, 2>>] = Num(0)
    /\ Made.ssm.transition.e[<<1, 3>>] = Var(Str("ar_params"), 1, 0)
    /\ Made.ssm.transition.e[<<2, 1>>] = Num(1)

\* C24: a LevelTrendComponent of integer order k >= 1, with all innovations
\* zero, moves every state to its current value plus the current value of the
\* next-higher derivative only, and keeps the highest derivative constant:
\* next[i] = x[i] + x[i + 1] for i < k and next[k] = x[k].
C24_NextHigherOnly ==
    (last.op = "LevelTrendComponent" /\ last.exc = "none"
        /\ last.arg.order.isint /\ last.arg.order.n >= 1) =>
        LET k == Made.k_states
            T == Made.ssm.transition.e
            RECURSIVE Row(_, _, _)
            Row(x, i, l) == IF l = 0 THEN 0 ELSE T[<<i, l>>][5] * x[l] + Row(x, i, l - 1)
        IN  /\ k = last.arg.order.n
            /\ \A x \in [1..k -> {0, 1, 3}] : \A i \in 1..k :
                  Row(x, i, k) = IF i < k THEN x[i] + x[i + 1] ELSE x[i]

\* C25: every concrete component that constructs successfully has as many
\* state_names as states, so that position i of state_names labels state i.
C25_StateNamesPerState ==
    (last.op \in Classes /\ last.exc = "none") => Len(Made.state_names) = Made.k_states

\* C26: every concrete component that constructs successfully has as many
\* shock_names as k_posdef.
C26_ShockNamesPerShock ==
    (last.op \in Classes /\ last.exc = "none") => Len(Made.shock_names) = Made.k_posdef

\* C27: after any sequence of additions of components with pairwise-distinct
\* names, whatever the names are, the component-info table of the result has
\* exactly one entry per leaf constituent, in composition order, and the k_states
\* entries of the table sum to the k_states of the result.
C27_InfoPerLeaf ==
    \A c \in SumIds :
        LET leaves == Leaves(c)
            info == comps[c].component_info
            RECURSIVE Total(_)
            Total(i) == IF i = 0 THEN 0 ELSE info[i][2].k_states + Total(i - 1)
        IN  (\A i, j \in 1..Len(leaves) : leaves[i] = leaves[j] => i = j) =>
                /\ DictKeys(info) = leaves
                /\ Total(Len(info)) = comps[c].k_states

\* C28: build() leaves the component it is called on unchanged: the component's
\* param_names, param_dims, param_info and coords are equal before and after the
\* call (so that a later build, of it or of a sum holding it, finds no "P0" in
\* them), and none of these containers of the built model is the component's.
C28_BuildLeavesComponent ==
    [][\A i \in 1..Len(comps) :
          (Build(i) /\ last'.exc = "none") =>
              \A f \in {"param_names", "param_dims", "param_info", "coords"} :
                  /\ heap'[comps[i][f]] = heap[comps[i][f]]
                  /\ ~Contains(DictKeys(heap'[comps[i].param_info]), P0Name)
                  /\ models'[Len(models')][f] # comps[i][f]
      ]_vars

\* C29: every model built from components with pairwise-distinct component
\* names has no duplicate in param_names, and its placeholder registry holds
\* exactly one placeholder per entry of param_names.
C29_OnePlaceholderPerParam ==
    \A m \in 1..Len(models) :
        LET leaves == Leaves(models[m].src)
            param_names == heap[models[m].param_names]
            registry == DictKeys(heap[models[m].name_to_variable])
        IN  (\A i, j \in 1..Len(leaves) : leaves[i] = leaves[j] => i = j) =>
                /\ \A i, j \in 1..Len(param_names) : param_names[i] = param_names[j] => i = j
                /\ Range(registry) = Range(param_names)
                /\ Len(registry) = Len(param_names)

\* C30: for every concrete component that constructs successfully and every
\* parameter it declares, the shape recorded in param_info equals the shape of
\* the placeholder registered under the same name.
C30_DeclaredShapes ==
    (last.op \in Classes /\ last.exc = "none") =>
        LET info == Made.param_info
            registry == Made.name_to_variable
        IN  \A i \in 1..Len(info) : \A n \in 1..Len(registry) :
                registry[n][1] = info[i][1] => registry[n][2].shape = info[i][2].shape

====
